---- MODULE Spec2Model ----
(***************************************************************************)
(* The configuration patch engine of optiscaler_manager.py:                *)
(* OptiScalerManager._modify_vdf_launch_options and its caller             *)
(* apply_steam_launch_options.  Documents are sequences of one-character   *)
(* strings; offsets are 0-based as in the Python source.                   *)
(***************************************************************************)
EXTENDS Integers, Sequences, FiniteSets, TLC

\* ------------------------------------------------------------------------
\* Characters
\* ------------------------------------------------------------------------
Q == "\""
BS == "\\"
TAB == "\t"
NL == "\n"
SP == " "
LBRACE == "{"
RBRACE == "}"

\* ------------------------------------------------------------------------
\* Python str primitives
\* ------------------------------------------------------------------------
\* s[a:b]
Slice(s, a, b) == SubSeq(s, a + 1, b)

\* s[i]
At(s, i) == s[i + 1]

\* s.startswith(sub, i)
StartsAt(s, sub, i) ==
    /\ i >= 0
    /\ i + Len(sub) <= Len(s)
    /\ (sub # <<>> => s[i + 1] = sub[1])
    /\ SubSeq(s, i + 1, i + Len(sub)) = sub

\* s.find(sub, start): lowest index >= start where sub occurs, else -1
Find(s, sub, start) ==
    LET I == {i \in start..(Len(s) - Len(sub)) : StartsAt(s, sub, i)}
    IN IF I = {} THEN -1 ELSE CHOOSE i \in I : \A j \in I : i <= j

\* sub in s
Contains(s, sub) == Find(s, sub, 0) # -1

\* s.replace(c, rep) for a one-character pattern c: occurrences of one
\* character do not overlap, so that the two halves of s are replaced apart
RECURSIVE Replace(_, _, _)
Replace(s, c, rep) ==
    IF Len(s) > 1
    THEN Replace(SubSeq(s, 1, Len(s) \div 2), c, rep)
            \o Replace(SubSeq(s, Len(s) \div 2 + 1, Len(s)), c, rep)
    ELSE IF s = <<c>> THEN rep ELSE s

\* open(path, 'r', encoding='utf-8', errors='ignore').read(): the text of
\* the file with universal newlines, "\r\n" and "\r" read as "\n".  The
\* files of the model hold UTF-8 text only, so that no byte is dropped.
CR == "\r"

\* The element of the set of offsets cuts that is nearest to the middle of
\* a text of n characters
MiddleCut(cuts, n) ==
    LET Far(k) == IF 2 * k > n THEN 2 * k - n ELSE n - 2 * k
    IN CHOOSE k \in cuts : \A j \in cuts : Far(k) <= Far(j)

\* No line end spans a character that is no carriage return and the one
\* after it: the text is translated part by part, cut after such a
\* character near its middle, and left to right where there is none.
RECURSIVE Translate(_)
Translate(s) ==
    LET cuts == { k \in 1..(Len(s) - 1) : s[k] # CR }
    IN IF s = <<>> THEN <<>>
       ELSE IF cuts # {}
            THEN Translate(SubSeq(s, 1, MiddleCut(cuts, Len(s))))
                    \o Translate(SubSeq(s, MiddleCut(cuts, Len(s)) + 1,
                                        Len(s)))
       ELSE IF Head(s) # CR THEN <<Head(s)>> \o Translate(Tail(s))
       ELSE <<NL>> \o Translate(IF Len(s) > 1 /\ s[2] = NL
                                THEN SubSeq(s, 3, Len(s)) ELSE Tail(s))
TextRead(s) == IF \A i \in DOMAIN s : s[i] # CR THEN s ELSE Translate(s)


\* ------------------------------------------------------------------------
\* Tokens of the document format used by the engine
\* ------------------------------------------------------------------------
apps_key == <<Q, "a", "p", "p", "s", Q>>
launch_options_key ==
    <<Q, "L", "a", "u", "n", "c", "h", "O", "p", "t", "i", "o", "n", "s", Q>>
name_key == <<Q, "n", "a", "m", "e", Q>>
last_updated_key ==
    <<Q, "L", "a", "s", "t", "U", "p", "d", "a", "t", "e", "d", Q>>
size_on_disk_key ==
    <<Q, "S", "i", "z", "e", "O", "n", "D", "i", "s", "k", Q>>
tool_key == <<Q, "t", "o", "o", "l", Q>>
insertion_keys == <<name_key, last_updated_key, size_on_disk_key, tool_key>>
indent == <<TAB, TAB, TAB, TAB, TAB, TAB>>

\* f'"{app_id}"'
app_pattern(app_id) == <<Q>> \o app_id \o <<Q>>

\* ------------------------------------------------------------------------
\* Escape codec
\* ------------------------------------------------------------------------
\* A plausible slip: quotes escaped before backslashes.
EncodeQuotesFirst(launch_command) ==
    Replace(Replace(launch_command, Q, <<BS, Q>>), BS, <<BS, BS>>)

\* launch_command.replace('\\', '\\\\').replace('"', '\\"')
Encode(launch_command) ==
    Replace(Replace(launch_command, BS, <<BS, BS>>), Q, <<BS, Q>>)

\* The document's unescaping convention, read left to right:
\* backslash-backslash is a backslash, backslash-quote is a quote.
RECURSIVE Decode(_)
Decode(s) ==
    IF s = <<>> THEN <<>>
    ELSE IF Head(s) = BS /\ Len(s) >= 2 /\ s[2] \in {BS, Q}
         THEN <<s[2]>> \o Decode(SubSeq(s, 3, Len(s)))
         ELSE <<Head(s)>> \o Decode(Tail(s))

\* ------------------------------------------------------------------------
\* Brace scanner
\* ------------------------------------------------------------------------
\* for i in range(brace_start, len(config_content)): count braces until the
\* counter returns to zero; -1 when it never does.
\* A plausible slip: the text between two quotes is passed over, so that a
\* brace inside a quoted value is not counted.
RECURSIVE ScanBracesOutsideQuotes(_, _, _)
ScanBracesOutsideQuotes(config_content, i, brace_count) ==
    IF i >= Len(config_content) THEN -1
    ELSE IF At(config_content, i) = Q
         THEN LET close == Find(config_content, <<Q>>, i + 1)
              IN IF close = -1 THEN -1
                 ELSE ScanBracesOutsideQuotes(config_content, close + 1,
                                              brace_count)
    ELSE IF At(config_content, i) = LBRACE
         THEN ScanBracesOutsideQuotes(config_content, i + 1, brace_count + 1)
    ELSE IF At(config_content, i) = RBRACE
         THEN IF brace_count - 1 = 0 THEN i
              ELSE ScanBracesOutsideQuotes(config_content, i + 1,
                                           brace_count - 1)
    ELSE ScanBracesOutsideQuotes(config_content, i + 1, brace_count)

RECURSIVE ScanBraces(_, _, _)
ScanBraces(config_content, i, brace_count) ==
    IF i >= Len(config_content) THEN -1
    ELSE IF At(config_content, i) = LBRACE
         THEN ScanBraces(config_content, i + 1, brace_count + 1)
    ELSE IF At(config_content, i) = RBRACE
         THEN IF brace_count - 1 = 0 THEN i
              ELSE ScanBraces(config_content, i + 1, brace_count - 1)
    ELSE ScanBraces(config_content, i + 1, brace_count)

\* ------------------------------------------------------------------------
\* The field pattern  "LaunchOptions"\s+("([^"\\]|\\.)*")
\* ------------------------------------------------------------------------
\* \s of a str pattern, restricted to the characters of the model
IsSpace(c) == c \in {SP, TAB, NL, "\r", "\f"}

\* \s+ is greedy: index of the first non-space character at or after i
RECURSIVE SkipSpaces(_, _)
SkipSpaces(s, i) ==
    IF i < Len(s) /\ IsSpace(At(s, i)) THEN SkipSpaces(s, i + 1) ELSE i

\* ([^"\\]|\\.)*" from i: index of the closing quote, -1 when there is none.
\* The two alternatives start with different characters and neither can
\* start with a quote, so backtracking finds no other match than this scan.
\* '.' does not match a newline.
RECURSIVE ScanValue(_, _)
ScanValue(s, i) ==
    IF i >= Len(s) THEN -1
    ELSE IF At(s, i) = Q THEN i
    ELSE IF At(s, i) = BS
         THEN IF i + 1 < Len(s) /\ At(s, i + 1) # NL
              THEN ScanValue(s, i + 2)
              ELSE -1
    ELSE ScanValue(s, i + 1)

\* Index of the opening quote of group 1 for a match starting at p, or -1
ValueStart(s, p) ==
    IF ~StartsAt(s, launch_options_key, p) THEN -1
    ELSE LET w == p + Len(launch_options_key)
             e == SkipSpaces(s, w)
         IN IF e = w \/ e >= Len(s) \/ At(s, e) # Q THEN -1 ELSE e

\* End (exclusive) of the match of the pattern starting at p, or -1
MatchEnd(s, p) ==
    LET e == ValueStart(s, p)
    IN IF e = -1 THEN -1
       ELSE LET c == ScanValue(s, e + 1)
            IN IF c = -1 THEN -1 ELSE c + 1

\* re.search(pattern, s) scanning from pos: start of the leftmost match
ReSearch(s, pos) ==
    LET I == {p \in pos..Len(s) : MatchEnd(s, p) # -1}
    IN IF I = {} THEN -1 ELSE CHOOSE p \in I : \A r \in I : p <= r

\* The replacement template of re.sub: backslash-backslash stands for one
\* backslash; a backslash before a character that is neither a letter nor
\* a digit is left alone together with that character.  Encode doubles
\* every backslash, so the template never holds a backslash before a
\* letter or a digit.
\* An escape never ends in the middle of the template after a character
\* that is no backslash: the template is expanded part by part, cut after
\* such a character near its middle, and left to right where there is none.
RECURSIVE ExpandTemplate(_)
ExpandTemplate(t) ==
    LET cuts == { k \in 1..(Len(t) - 1) : t[k] # BS }
    IN IF t = <<>> THEN <<>>
       ELSE IF cuts # {}
            THEN LET k == MiddleCut(cuts, Len(t))
                 IN ExpandTemplate(SubSeq(t, 1, k))
                        \o ExpandTemplate(SubSeq(t, k + 1, Len(t)))
       ELSE IF Head(t) = BS /\ Len(t) >= 2
            THEN IF t[2] = BS
                 THEN <<BS>> \o ExpandTemplate(SubSeq(t, 3, Len(t)))
                 ELSE <<BS, t[2]>> \o ExpandTemplate(SubSeq(t, 3, Len(t)))
       ELSE <<Head(t)>> \o ExpandTemplate(Tail(t))

\* re.sub(pattern, repl, s) from pos: every non-overlapping match, left to
\* right, is replaced by the expanded template (no count is given).
RECURSIVE ReSubFrom(_, _, _)
ReSubFrom(s, repl, pos) ==
    LET p == ReSearch(s, pos)
    IN IF p = -1 THEN Slice(s, pos, Len(s))
       ELSE Slice(s, pos, p) \o ExpandTemplate(repl)
                \o ReSubFrom(s, repl, MatchEnd(s, p))

ReSub(s, repl) == ReSubFrom(s, repl, 0)

\* ------------------------------------------------------------------------
\* Field patcher
\* ------------------------------------------------------------------------
\* f'"LaunchOptions"\t\t"{escaped_command}"'
ReplaceLine(escaped_command) ==
    launch_options_key \o <<TAB, TAB, Q>> \o escaped_command \o <<Q>>

\* f'{indent}"LaunchOptions"\t\t"{escaped_command}"\n'
InsertLine(escaped_command) ==
    indent \o launch_options_key \o <<TAB, TAB, Q>> \o escaped_command
        \o <<Q, NL>>

\* for key in insertion_keys: the offset after the line of the last listed
\* key that occurs and has a newline after it; 0 when there is none.
RECURSIVE InsertionScan(_, _, _)
InsertionScan(app_section_content, k, insertion_pos) ==
    IF k > Len(insertion_keys) THEN insertion_pos
    ELSE LET key_pos == Find(app_section_content, insertion_keys[k], 0)
             line_end == IF key_pos = -1 THEN -1
                         ELSE Find(app_section_content, <<NL>>, key_pos)
         IN InsertionScan(app_section_content, k + 1,
                          IF line_end # -1 THEN line_end + 1
                          ELSE insertion_pos)

\* A plausible slip: insertion_pos starts at the end of the record.
InsertionPosFromEnd(app_section_content) ==
    InsertionScan(app_section_content, 1, Len(app_section_content))

InsertionPos(app_section_content) == InsertionScan(app_section_content, 1, 0)

\* A plausible slip: re.sub is given count=1, so that only the first match
\* is replaced.
PatchFieldFirstOnly(app_section_content, escaped_command) ==
    LET p == ReSearch(app_section_content, 0)
    IN IF p # -1
       THEN Slice(app_section_content, 0, p)
                \o ExpandTemplate(ReplaceLine(escaped_command))
                \o Slice(app_section_content, MatchEnd(app_section_content, p),
                         Len(app_section_content))
       ELSE LET insertion_pos == InsertionPos(app_section_content)
            IN Slice(app_section_content, 0, insertion_pos)
                   \o InsertLine(escaped_command)
                   \o Slice(app_section_content, insertion_pos,
                            Len(app_section_content))

\* The new text of the record's interior: replace path when the pattern
\* matches, insert path otherwise.
PatchField(app_section_content, escaped_command) ==
    IF ReSearch(app_section_content, 0) # -1
    THEN ReSub(app_section_content, ReplaceLine(escaped_command))
    ELSE LET insertion_pos == InsertionPos(app_section_content)
         IN Slice(app_section_content, 0, insertion_pos)
                \o InsertLine(escaped_command)
                \o Slice(app_section_content, insertion_pos,
                         Len(app_section_content))

\* ------------------------------------------------------------------------
\* Section locator
\* ------------------------------------------------------------------------
NotFound == [found |-> FALSE, start_pos |-> 0, brace_end |-> 0]


\* A plausible slip: a block that is never closed ends with the text.
BlockAfterToEnd(config_content, from) ==
    LET brace_start == Find(config_content, <<LBRACE>>, from)
    IN IF brace_start = -1 THEN NotFound
       ELSE LET brace_end == ScanBraces(config_content, brace_start, 0)
            IN [found |-> TRUE,
                start_pos |-> brace_start + 1,
                brace_end |-> IF brace_end = -1 THEN Len(config_content)
                              ELSE brace_end]

\* The braces of the block that starts at or after offset from
BlockAfter(config_content, from) ==
    LET brace_start == Find(config_content, <<LBRACE>>, from)
    IN IF brace_start = -1 THEN NotFound
       ELSE LET brace_end == ScanBraces(config_content, brace_start, 0)
            IN IF brace_end = -1 THEN NotFound
               ELSE [found |-> TRUE,
                     start_pos |-> brace_start + 1,
                     brace_end |-> brace_end]

\* A plausible slip: the result of the search for the app id is not
\* tested, and the scan goes on from the apps section.
LocateRecordUnchecked(config_content, app_id) ==
    LET apps_section_start == Find(config_content, apps_key, 0)
    IN IF apps_section_start = -1 THEN NotFound
       ELSE LET app_section_start ==
                    Find(config_content, app_pattern(app_id),
                         apps_section_start)
            IN BlockAfter(config_content,
                          IF app_section_start = -1 THEN apps_section_start
                          ELSE app_section_start)

\* A plausible slip: the record key is searched from the start of the
\* document, the apps key only has to be there.
LocateRecordFromStart(config_content, app_id) ==
    LET apps_section_start == Find(config_content, apps_key, 0)
    IN IF apps_section_start = -1 THEN NotFound
       ELSE LET app_section_start ==
                    Find(config_content, app_pattern(app_id), 0)
            IN IF app_section_start = -1 THEN NotFound
               ELSE BlockAfter(config_content, app_section_start)

\* The span of the record's interior: (brace_start + 1, brace_end)
LocateRecord(config_content, app_id) ==
    LET apps_section_start == Find(config_content, apps_key, 0)
    IN IF apps_section_start = -1 THEN NotFound
       ELSE LET app_section_start ==
                    Find(config_content, app_pattern(app_id),
                         apps_section_start)
            IN IF app_section_start = -1 THEN NotFound
               ELSE BlockAfter(config_content, app_section_start)

\* A plausible slip: the closing brace is dropped from the suffix.
SpliceDropBrace(config_content, span, new_app_content) ==
    Slice(config_content, 0, span.start_pos) \o new_app_content
        \o Slice(config_content, span.brace_end + 1, Len(config_content))

\* config_content[:app_section_start_pos] + new_app_content
\*     + config_content[brace_end:]
Splice(config_content, span, new_app_content) ==
    Slice(config_content, 0, span.start_pos) \o new_app_content
        \o Slice(config_content, span.brace_end, Len(config_content))

\* The interior of the located record
SectionContent(config_content, span) ==
    Slice(config_content, span.start_pos, span.brace_end)

\* The document the invocation will commit
NewConfig(config_content, app_id, launch_command) ==
    LET span == LocateRecord(config_content, app_id)
    IN Splice(config_content, span,
              PatchField(SectionContent(config_content, span),
                         Encode(launch_command)))

\* ------------------------------------------------------------------------
\* Bounds and inputs
\* ------------------------------------------------------------------------
\* Invocations per behaviour
MaxCalls == 2
\* Failing file operations per behaviour
MaxFaults == 1
\* Length of the strings the codec is applied to
MaxRawLen == 4

\* Raw launch commands: ordinary characters, quotes, backslashes
Values == { <<"h">>, <<"n", Q, "v">>, <<BS>> }

\* Requests: every value for the record "7", which every document holds,
\* and one request for the record "9", which none holds
Requests ==
    { [app_id |-> <<"7">>, launch_command |-> v] : v \in Values }
        \cup { [app_id |-> <<"9">>, launch_command |-> <<"h">>] }

\* key ws "value"
Field(key, ws, value) == key \o ws \o <<Q>> \o value \o <<Q>>

\* Interiors of the record "7"
body_empty == <<>>
body_scenario_a == Field(name_key, <<SP>>, <<"F">>)
body_name_line ==
    <<NL, TAB>> \o Field(name_key, <<TAB, TAB>>, <<"F">>) \o <<NL>>
body_canonical ==
    body_name_line \o <<TAB>>
        \o Field(launch_options_key, <<TAB, TAB>>, <<"a">>) \o <<NL>>
body_scenario_b == Field(launch_options_key, <<SP>>, <<"o", BS, Q, "v">>)
body_nested ==
    Field(launch_options_key, <<TAB, TAB>>, <<"a">>) \o <<NL>>
        \o <<Q, "c", Q, LBRACE>>
        \o Field(launch_options_key, <<SP>>, <<"z">>) \o <<RBRACE>>
        \o Field(<<Q, "d", Q>>, <<SP>>, <<"e">>)
Bodies ==
    { body_empty, body_scenario_a, body_name_line, body_canonical,
      body_scenario_b, body_nested }

\* What follows the record "7" inside the apps section: nothing, or a
\* record whose field value holds an escaped backslash
sibling_path ==
    <<Q, "8", Q, LBRACE>> \o Field(<<Q, "p", Q>>, <<TAB>>, <<BS, BS>>)
        \o <<RBRACE>>

Document(body, sibling) ==
    apps_key \o <<LBRACE>> \o app_pattern(<<"7">>) \o <<LBRACE>> \o body
        \o <<RBRACE>> \o sibling \o <<RBRACE>>

\* Documents cut short: after the key of the record "7", and inside its
\* block
document_no_block == apps_key \o <<LBRACE>> \o app_pattern(<<"7">>)
document_truncated ==
    apps_key \o <<LBRACE>> \o app_pattern(<<"7">>) \o <<LBRACE>>
        \o body_name_line
Truncated == { document_no_block, document_truncated }

Documents ==
    { Document(b, s) : b \in Bodies, s \in {<<>>, sibling_path} }
        \cup Truncated

\* Documents that try the locator and the insertion scan, each patched by a
\* single invocation: the key "7" only as a field's value, before the block
\* of the record "8"
document_key_as_value ==
    apps_key \o <<LBRACE, Q, "5", Q, LBRACE>>
        \o Field(name_key, <<SP>>, <<"7">>) \o <<RBRACE>>
        \o <<Q, "8", Q, LBRACE>> \o Field(<<Q, "p", Q>>, <<SP>>, <<"q">>)
        \o <<RBRACE, RBRACE>>
\* no apps key at all
document_no_apps ==
    app_pattern(<<"7">>) \o <<LBRACE>> \o Field(name_key, <<SP>>, <<"F">>)
        \o <<NL, RBRACE>>
\* the key "7" with a block before the apps key, and again inside it
document_key_before_apps ==
    app_pattern(<<"7">>) \o <<LBRACE, RBRACE>>
        \o Document(Field(name_key, <<SP>>, <<"F">>) \o <<NL>>, <<>>)
\* a closing brace inside a quoted value
document_brace_in_value ==
    Document(Field(name_key, <<SP>>, <<"a", RBRACE, "b">>) \o <<NL>>, <<>>)
\* a record with a field and no anchor key
document_no_anchor ==
    Document(Field(<<Q, "x", Q>>, <<SP>>, <<"y">>) \o <<NL>>, <<>>)
\* an anchor key inside a nested block only
document_nested_anchor ==
    Document(<<Q, "c", Q, LBRACE>> \o Field(name_key, <<SP>>, <<"F">>)
                 \o <<NL, RBRACE, NL>>, <<>>)
\* lines that end in carriage return and line feed, as Windows writes them
document_crlf ==
    Document(Field(name_key, <<SP>>, <<"F">>) \o <<CR, NL>>, <<>>)
        \o <<CR, NL>>
\* lines that end in a carriage return alone
document_cr ==
    Document(Field(name_key, <<SP>>, <<"F">>) \o <<CR>>, <<>>) \o <<CR>>
Crafted ==
    { document_key_as_value, document_no_apps, document_key_before_apps,
      document_brace_in_value, document_no_anchor, document_nested_anchor,
      document_crlf, document_cr }

\* The documents a sequence of invocations starts from: a record without
\* the field and with Windows line ends, an empty one, one with the field,
\* and one with a nested block and the field on both levels
SequenceDocuments ==
    { Document(body_empty, sibling_path),
      Document(body_scenario_b, sibling_path),
      Document(body_nested, sibling_path),
      document_crlf }

\* The requests of a sequence of invocations: a plain value and a backslash
\* for the record "7", and the request for the record "9"
SequenceRequests ==
    { q \in Requests : q.launch_command \in {<<"h">>, <<BS>>} }

\* A value with a carriage return in it
value_cr == <<"a", CR, "b">>

\* The requests of one invocation of apply_steam_launch_options
ApplyRequests ==
    Requests \cup { [app_id |-> <<"7">>, launch_command |-> value_cr] }

\* ------------------------------------------------------------------------
\* get_launch_options_catalog: the texts of the catalog
\* ------------------------------------------------------------------------
\* s.replace(old, new) for a pattern old of any length, from offset from
RECURSIVE ReplaceAll(_, _, _, _)
ReplaceAll(s, old, new, from) ==
    LET p == Find(s, old, from)
    IN IF p = -1 THEN Slice(s, from, Len(s))
       ELSE Slice(s, from, p) \o new \o ReplaceAll(s, old, new, p + Len(old))

optiscaler_base ==
    <<"W", "I", "N", "E", "D", "L", "L", "O", "V", "E", "R", "R", "I",
      "D", "E", "S", "=", Q, "d", "x", "g", "i", "=", "n", ",", "b", Q>>

mangohud ==
    <<"m", "a", "n", "g", "o", "h", "u", "d">>

rdna3 ==
    <<"r", "d", "n", "a", "3">>

proton_fsr4_upgrade ==
    <<"P", "R", "O", "T", "O", "N", "_", "F", "S", "R", "4", "_", "U",
      "P", "G", "R", "A", "D", "E", "=", "1">>

radv_perftest ==
    <<"R", "A", "D", "V", "_", "P", "E", "R", "F", "T", "E", "S", "T",
      "=">>

nggc ==
    <<"n", "g", "g", "c">>

dxil_spirv_config ==
    <<"D", "X", "I", "L", "_", "S", "P", "I", "R", "V", "_", "C", "O",
      "N", "F", "I", "G", "=", "w", "m", "m", "a", "_", "r", "d", "n",
      "a", "3", "_", "w", "o", "r", "k", "a", "r", "o", "u", "n", "d">>

command_placeholder ==
    <<"%", "c", "o", "m", "m", "a", "n", "d", "%">>

\* Keys of the catalog

key_basic ==
    <<"b", "a", "s", "i", "c">>

key_advanced ==
    <<"a", "d", "v", "a", "n", "c", "e", "d">>

key_debug ==
    <<"d", "e", "b", "u", "g">>

key_antilag ==
    <<"a", "n", "t", "i", "l", "a", "g">>

key_fsr4_enhanced ==
    <<"f", "s", "r", "4", "_", "e", "n", "h", "a", "n", "c", "e", "d">>

key_ue_dx12 ==
    <<"u", "e", "_", "d", "x", "1", "2">>

key_no_dlss_fg ==
    <<"n", "o", "_", "d", "l", "s", "s", "_", "f", "g">>

WithMangohud(key) == key \o <<"_">> \o mangohud

\* Settings of the commands, between the base and %command%

advanced_settings ==
    <<"D", "X", "V", "K", "_", "A", "S", "Y", "N", "C", "=", "1", SP, "P",
      "R", "O", "T", "O", "N", "_", "E", "N", "A", "B", "L", "E", "_",
      "N", "V", "A", "P", "I", "=", "1", SP, "P", "R", "O", "T", "O", "N",
      "_", "H", "I", "D", "E", "_", "N", "V", "I", "D", "I", "A", "_",
      "G", "P", "U", "=", "0", SP, "V", "K", "D", "3", "D", "_", "C", "O",
      "N", "F", "I", "G", "=", "d", "x", "r", "1", "1", ",", "d", "x",
      "r", SP, "W", "I", "N", "E", "_", "C", "P", "U", "_", "T", "O", "P",
      "O", "L", "O", "G", "Y", "=", "4", ":", "2">>

debug_settings ==
    <<"P", "R", "O", "T", "O", "N", "_", "L", "O", "G", "=", "+", "a",
      "l", "l", SP, "W", "I", "N", "E", "D", "E", "B", "U", "G", "=", "+",
      "d", "l", "l">>

no_dlss_fg_base ==
    <<"W", "I", "N", "E", "D", "L", "L", "O", "V", "E", "R", "R", "I",
      "D", "E", "S", "=", Q, "d", "x", "g", "i", "=", "n", ",", "b", ";",
      "n", "v", "n", "g", "x", "=", "n", ",", "b", Q>>

dx12_flag ==
    <<"-", "d", "x", "1", "2">>

\* The words of an f-string, one space between two of them
RECURSIVE Join(_)
Join(words) ==
    IF Len(words) = 1 THEN words[1]
    ELSE words[1] \o <<SP>> \o Join(Tail(words))

\* One entry of the catalog; name, description and requirements are kept as
\* the pieces they are put together from
Option(key, name, description, command, category, compat, req) ==
    [key |-> key, name |-> <<name>>, description |-> <<description>>,
     command |-> Join(command), category |-> category,
     compatibility |-> compat, requirements |-> <<req>>]

\* The dict literal, in the order of its keys
base_catalog ==
    << Option(key_basic, "Basic OptiScaler",
              "Essential OptiScaler setup - recommended starting point",
              <<optiscaler_base, proton_fsr4_upgrade, command_placeholder>>,
              "basic", "All games", "OptiScaler installed"),
       Option(WithMangohud(key_basic), "Basic + MangoHUD",
              "Basic OptiScaler with performance monitoring overlay",
              <<mangohud, optiscaler_base, proton_fsr4_upgrade,
                command_placeholder>>,
              "basic", "All games", "OptiScaler installed, MangoHUD"),
       Option(key_advanced, "Advanced OptiScaler",
              "Enhanced performance and compatibility settings",
              <<optiscaler_base, proton_fsr4_upgrade, advanced_settings,
                command_placeholder>>,
              "advanced", "Most games", "OptiScaler installed, DXVK"),
       Option(WithMangohud(key_advanced), "Advanced + MangoHUD",
              "Advanced settings with performance monitoring",
              <<mangohud, optiscaler_base, proton_fsr4_upgrade,
                advanced_settings, command_placeholder>>,
              "advanced", "Most games",
              "OptiScaler installed, DXVK, MangoHUD"),
       Option(key_debug, "Debug Mode",
              "Detailed logging for troubleshooting issues",
              <<optiscaler_base, debug_settings, proton_fsr4_upgrade,
                command_placeholder>>,
              "debug", "All games", "OptiScaler installed"),
       Option(WithMangohud(key_debug), "Debug + MangoHUD",
              "Debug mode with performance monitoring",
              <<mangohud, optiscaler_base, debug_settings,
                proton_fsr4_upgrade, command_placeholder>>,
              "debug", "All games", "OptiScaler installed, MangoHUD"),
       Option(key_antilag, "Anti-Lag 2",
              "Experimental latency reduction (AMD only)",
              <<optiscaler_base, proton_fsr4_upgrade,
                radv_perftest \o <<"r", "t">>, command_placeholder>>,
              "experimental", "AMD GPUs only",
              "OptiScaler installed, AMD GPU"),
       Option(WithMangohud(key_antilag), "Anti-Lag 2 + MangoHUD",
              "Anti-Lag 2 with performance monitoring",
              <<mangohud, optiscaler_base, proton_fsr4_upgrade,
                radv_perftest \o <<"r", "t">>, command_placeholder>>,
              "experimental", "AMD GPUs only",
              "OptiScaler installed, AMD GPU, MangoHUD"),
       Option(key_fsr4_enhanced, "FSR4 Enhanced",
              "Optimized FSR4 settings with enhanced performance",
              <<optiscaler_base, proton_fsr4_upgrade,
                radv_perftest \o nggc \o <<",", "r", "t">>,
                command_placeholder>>,
              "fsr4", "AMD GPUs (FSR4 capable)",
              "OptiScaler installed, AMD GPU, FSR4 DLL"),
       Option(WithMangohud(key_fsr4_enhanced), "FSR4 Enhanced + MangoHUD",
              "FSR4 Enhanced with performance monitoring",
              <<mangohud, optiscaler_base, proton_fsr4_upgrade,
                radv_perftest \o nggc \o <<",", "r", "t">>,
                command_placeholder>>,
              "fsr4", "AMD GPUs (FSR4 capable)",
              "OptiScaler installed, AMD GPU, FSR4 DLL, MangoHUD"),
       Option(key_ue_dx12, "Unreal Engine + DX12",
              "Optimized for Unreal Engine games with DirectX 12",
              <<optiscaler_base, proton_fsr4_upgrade, dx12_flag,
                command_placeholder>>,
              "game_specific", "Unreal Engine games",
              "OptiScaler installed, UE game"),
       Option(WithMangohud(key_ue_dx12), "Unreal Engine + DX12 + MangoHUD",
              "UE DX12 optimization with performance monitoring",
              <<mangohud, optiscaler_base, proton_fsr4_upgrade, dx12_flag,
                command_placeholder>>,
              "game_specific", "Unreal Engine games",
              "OptiScaler installed, UE game, MangoHUD"),
       Option(key_no_dlss_fg, "Disable DLSS Frame Generation",
              "For games with DLSS Frame Generation issues",
              <<no_dlss_fg_base, proton_fsr4_upgrade, command_placeholder>>,
              "compatibility", "Games with DLSS FG issues",
              "OptiScaler installed"),
       Option(WithMangohud(key_no_dlss_fg), "Disable DLSS FG + MangoHUD",
              "DLSS FG disabled with performance monitoring",
              <<mangohud, no_dlss_fg_base, proton_fsr4_upgrade,
                command_placeholder>>,
              "compatibility", "Games with DLSS FG issues",
              "OptiScaler installed, MangoHUD") >>


\* A plausible slip: the variant is stored under the key of its original.
Rdna3OptionSameKey(option) ==
    [key |-> option.key,
     name |-> option.name \o <<" (RDNA3)">>,
     description |-> option.description \o <<" - RDNA3 GPU workaround">>,
     command |-> option.command,
     category |-> option.category,
     compatibility |-> "RDNA3 GPUs only",
     requirements |-> option.requirements \o <<", RDNA3 GPU">>]

\* The RDNA3 variant of one entry
Rdna3Option(option) ==
    LET with_config ==
            ReplaceAll(option.command, optiscaler_base,
                       Join(<<optiscaler_base, dxil_spirv_config>>), 0)
        rdna3_cmd ==
            IF ~Contains(with_config, radv_perftest)
            THEN ReplaceAll(with_config, proton_fsr4_upgrade,
                            Join(<<proton_fsr4_upgrade,
                                   radv_perftest \o nggc>>), 0)
            ELSE ReplaceAll(with_config, radv_perftest,
                            radv_perftest \o nggc \o <<",">>, 0)
    IN [key |-> option.key \o <<"_">> \o rdna3,
        name |-> option.name \o <<" (RDNA3)">>,
        description |-> option.description \o <<" - RDNA3 GPU workaround">>,
        command |-> rdna3_cmd,
        category |-> option.category,
        compatibility |-> "RDNA3 GPUs only",
        requirements |-> option.requirements \o <<", RDNA3 GPU">>]

\* Keys of a dict
Keys(d) == { d[i].key : i \in DOMAIN d }

\* d.update(more): the entry of a key d holds is replaced where it stands,
\* the entry of a new key is added at the end
RECURSIVE Update(_, _)
Update(d, more) ==
    IF more = <<>> THEN d
    ELSE LET e == Head(more)
             next ==
                IF e.key \in Keys(d)
                THEN [i \in DOMAIN d |-> IF d[i].key = e.key THEN e ELSE d[i]]
                ELSE Append(d, e)
         IN Update(next, Tail(more))

\* A plausible slip: only a key that ends with the word is filtered out.
HasMangohudSuffix(option) ==
    StartsAt(option.key, mangohud, Len(option.key) - Len(mangohud))

\* "mangohud" in k
HasMangohud(option) == Contains(option.key, mangohud)

\* {k: v for k, v in catalog.items() if "mangohud" not in k}
RECURSIVE WithoutMangohud(_)
WithoutMangohud(d) ==
    IF d = <<>> THEN <<>>
    ELSE (IF HasMangohud(Head(d)) THEN <<>> ELSE <<Head(d)>>)
            \o WithoutMangohud(Tail(d))


\* The variants the loop over d collects
RECURSIVE VariantsOf(_)
VariantsOf(d) ==
    IF d = <<>> THEN <<>>
    ELSE Update(IF ~Contains(Head(d).command, dxil_spirv_config)
                THEN <<Rdna3Option(Head(d))>> ELSE <<>>,
                VariantsOf(Tail(d)))

\* get_launch_options_catalog(rdna3_workaround, include_mangohud) as one
\* value
CatalogFor(workaround, with_mangohud) ==
    LET full == IF workaround
                THEN Update(base_catalog, VariantsOf(base_catalog))
                ELSE base_catalog
    IN IF ~with_mangohud THEN WithoutMangohud(full) ELSE full

\* The order in which the selection menu goes through the categories
category_order ==
    <<"basic", "advanced", "fsr4", "game_specific", "compatibility",
      "experimental", "debug">>

\* The entries of d in category c, in the order of d
RECURSIVE InCategory(_, _)
InCategory(d, c) ==
    IF d = <<>> THEN <<>>
    ELSE (IF Head(d).category = c THEN <<Head(d)>> ELSE <<>>)
            \o InCategory(Tail(d), c)

\* index_map: the entries of the catalog as the menu numbers them
RECURSIVE IndexMap(_, _)
IndexMap(d, categories) ==
    IF categories = <<>> THEN <<>>
    ELSE InCategory(d, Head(categories)) \o IndexMap(d, Tail(categories))

\* ------------------------------------------------------------------------
\* State
\* ------------------------------------------------------------------------
VARIABLES
    disk,             \* content of config_path
    tmp,              \* content of temp_path: <<>> when absent, <<text>>
    backups,          \* backup_path (its timestamp) -> content
    now,              \* the clock, in seconds
    faults,           \* file operations that have failed so far
    pc,               \* position of the running invocation, or "idle"
    app_id, launch_command, config_content,   \* its arguments
    new_config, escaped_command, backup_path, \* its locals
    backed_up,        \* shutil.copy2 has returned
    swapped,          \* os.replace has returned
    fault,            \* the file operation that raised, or "none"
    ret,              \* its pending return value
    log,              \* completed invocations, oldest first
    raw, text, phase, \* the codec applied to one string
    rdna3_workaround, include_mangohud,   \* arguments of the catalog
    catalog, rdna3_options,               \* its dicts, as ordered entries
    item,             \* position of its loop over the catalog
    cpc,              \* position of the catalog and of the menu
    selected,         \* what the menu ended with
    install,          \* what of the Steam installation is on disk
    apc,              \* position of apply_steam_launch_options
    steam_running,    \* its local
    stages,           \* the stages it has run, in order
    touched,          \* os.utime has set the target's times
    pids,             \* the processes the reload has still to signal
    hup_sent,         \* the kill -HUP it has run so far
    note,             \* the reload has printed its note
    apply_ret,        \* its return value: "none" until it returns
    inodes,           \* the files of the directory: inode -> content
    target,           \* the inode config_path names
    temp,             \* the inode temp_path names, 0 when it names none
    procs,            \* the invocations that run side by side
    rewrites,         \* rewrites of the target by its owner so far
    original          \* content of config_path when the caller read it

vars ==
    <<disk, tmp, backups, now, faults, pc, app_id, launch_command,
      config_content, new_config, escaped_command, backup_path, backed_up,
      swapped, fault, ret, log, raw, text, phase, rdna3_workaround,
      include_mangohud, catalog, rdna3_options, item, cpc, selected,
      install, apc, steam_running, stages, touched, pids, hup_sent, note,
      apply_ret, inodes, target, temp, procs, rewrites, original>>

fs == <<disk, tmp, backups>>
locals ==
    <<app_id, launch_command, config_content, new_config, escaped_command,
      backup_path, backed_up, swapped, fault, ret>>
codec == <<raw, text, phase>>
catalog_vars ==
    <<rdna3_workaround, include_mangohud, catalog, rdna3_options, item, cpc,
      selected>>
apply_vars ==
    <<install, apc, steam_running, stages, touched, pids, hup_sent, note,
      apply_ret>>
racing == <<inodes, target, temp, procs, rewrites>>
aside == <<codec, catalog_vars, apply_vars, racing, original>>

NoBackups == [t \in {} |-> <<>>]

\* How the menu ends without an entry chosen
NoSelection(outcome) ==
    [outcome |-> outcome, key |-> <<>>, command |-> <<>>, ret |-> FALSE]

\* The catalog and the pipeline around the engine are not running
CatalogOff ==
    /\ rdna3_workaround = FALSE /\ include_mangohud = FALSE
    /\ catalog = <<>> /\ rdna3_options = <<>> /\ item = 0
    /\ cpc = "off" /\ selected = NoSelection("none")
ApplyOff ==
    /\ install = "complete" /\ apc = "off" /\ steam_running = FALSE
    /\ stages = <<>> /\ touched = FALSE /\ pids = 0 /\ hup_sent = 0
    /\ note = FALSE /\ apply_ret = FALSE

\* No invocations run side by side
RacingOff ==
    /\ inodes = <<>> /\ target = 0 /\ temp = 0 /\ procs = <<>>
    /\ rewrites = 0
    /\ original = <<>>

Init ==
    /\ disk \in SequenceDocuments
    /\ tmp = <<>>
    /\ backups = NoBackups
    /\ now = 0
    /\ faults = 0
    /\ pc = "idle"
    /\ app_id = <<>> /\ launch_command = <<>> /\ config_content = <<>>
    /\ new_config = <<>> /\ escaped_command = <<>> /\ backup_path = -1
    /\ backed_up = FALSE /\ swapped = FALSE /\ fault = "none" /\ ret = FALSE
    /\ log = <<>>
    /\ raw = <<>> /\ text = <<>> /\ phase = "off"
    /\ CatalogOff /\ ApplyOff /\ RacingOff

\* ------------------------------------------------------------------------
\* apply_steam_launch_options / _modify_vdf_launch_options, step by step
\* ------------------------------------------------------------------------
\* The invocation returns: its record is appended to the log. unlink says
\* what became of temp_path.unlink(): "none" when it was not called,
\* "removed" when it removed the file, "failed" when it raised; finally
\* says what became of the finally clause: "none" when the try block was
\* not entered, "done" when it ran to its end, "raised" when it raised
Return(value, unlink, finally) ==
    /\ log' = Append(log, [app_id |-> app_id,
                           launch_command |-> launch_command,
                           original |-> original,
                           before |-> config_content,
                           after |-> disk,
                           backups |-> backups,
                           backed_up |-> backed_up,
                           swapped |-> swapped,
                           fault |-> fault,
                           unlink |-> unlink,
                           finally |-> finally,
                           temp |-> IF unlink = "removed" THEN <<>> ELSE tmp,
                           ret |-> value])
    /\ pc' = "idle"
    /\ app_id' = <<>> /\ launch_command' = <<>> /\ config_content' = <<>>
    /\ new_config' = <<>> /\ escaped_command' = <<>> /\ backup_path' = -1
    /\ backed_up' = FALSE /\ swapped' = FALSE /\ fault' = "none"
    /\ ret' = FALSE

\* The caller reads the file as text and passes its content on
Call(request) ==
    /\ pc = "idle"
    /\ Len(log) < MaxCalls
    /\ app_id' = request.app_id
    /\ launch_command' = request.launch_command
    /\ original' = disk
    /\ config_content' = TextRead(disk)
    /\ pc' = "locate"
    /\ UNCHANGED <<fs, now, faults, new_config, escaped_command,
                   backup_path, backed_up, swapped, fault, ret, log, codec,
                   catalog_vars, apply_vars, racing>>

\* Locate the record and build the new document, or return failure
Locate ==
    /\ pc = "locate"
    /\ IF LocateRecord(config_content, app_id).found
       THEN /\ new_config' = NewConfig(config_content, app_id, launch_command)
            /\ escaped_command' = Encode(launch_command)
            /\ pc' = "backup"
            /\ UNCHANGED <<app_id, launch_command, config_content,
                           backup_path, backed_up, swapped, fault, ret, log>>
       ELSE Return(FALSE, "none", "none")
    /\ UNCHANGED <<fs, now, faults, aside>>

\* A file operation may fail while the budget of failures lasts
MayFail == faults < MaxFaults

\* The operation named op raises: control passes to the except clause,
\* which returns False once the finally clause has run
Raise(op) ==
    /\ MayFail
    /\ faults' = faults + 1
    /\ fault' = op
    /\ ret' = FALSE
    /\ pc' = "cleanup"

\* The second in which the clock is read: the second of the latest path
\* it has named or the one after it (while it has named none every second
\* names a fresh path, and the clock stays where it is)
Seconds ==
    IF DOMAIN backups = {} /\ \A q \in DOMAIN procs : procs[q].backup_path = -1
    THEN {now}
    ELSE {now, now + 1}

\* A plausible slip: the backup is taken of the new document.
BackupOfNewConfig ==
    /\ pc = "backup"
    /\ \E ts \in Seconds :
        /\ now' = ts
        /\ backup_path' = ts
        /\ backups' = [t \in DOMAIN backups \cup {ts} |->
                          IF t = ts THEN new_config ELSE backups[t]]
        /\ backed_up' = TRUE
        /\ UNCHANGED faults
    /\ pc' = "open"
    /\ UNCHANGED <<disk, tmp, app_id, launch_command, config_content,
                   new_config, escaped_command, swapped, fault, ret, log,
                   aside>>


\* A plausible slip: a failing copy is treated like a failing write.
BackupFailureAborts ==
    /\ pc = "backup"
    /\ \E ts \in Seconds :
        /\ now' = ts
        /\ backup_path' = ts
        /\ \/ /\ backups' = [t \in DOMAIN backups \cup {ts} |->
                                IF t = ts THEN disk ELSE backups[t]]
              /\ backed_up' = TRUE
              /\ pc' = "open"
              /\ UNCHANGED <<faults, ret>>
           \/ /\ MayFail
              /\ faults' = faults + 1
              /\ ret' = FALSE
              /\ pc' = "cleanup"
              /\ UNCHANGED <<backups, backed_up>>
    /\ UNCHANGED <<disk, tmp, app_id, launch_command, config_content,
                   new_config, escaped_command, swapped, fault, log, aside>>

\* What shutil.copy2 leaves at its destination when it raises after it has
\* opened it: nothing of the file, a first part of it, or the whole of it
\* when it is the copy of the file's times and mode that fails
PartialCopies(content) ==
    { Slice(content, 0, k) : k \in {0, Len(content) \div 2, Len(content)} }

\* The clock is read for the backup's name and the file is copied to it;
\* a failing copy is reported and the invocation goes on. The copy fails
\* before it has opened backup_path, or after: then the file at
\* backup_path, new or of an earlier invocation, holds what was copied
Backup ==
    /\ pc = "backup"
    /\ \E ts \in Seconds :
        /\ now' = ts
        /\ backup_path' = ts
        /\ \/ /\ backups' = [t \in DOMAIN backups \cup {ts} |->
                                IF t = ts THEN disk ELSE backups[t]]
              /\ backed_up' = TRUE
              /\ UNCHANGED faults
           \/ /\ MayFail
              /\ faults' = faults + 1
              /\ \/ UNCHANGED backups
                 \/ \E part \in PartialCopies(disk) :
                        backups' = [t \in DOMAIN backups \cup {ts} |->
                                       IF t = ts THEN part ELSE backups[t]]
              /\ UNCHANGED backed_up
    /\ pc' = "open"
    /\ UNCHANGED <<disk, tmp, app_id, launch_command, config_content,
                   new_config, escaped_command, swapped, fault, ret, log,
                   aside>>

\* A plausible slip: the target itself is opened for writing.
OpenTarget ==
    /\ pc = "open"
    /\ disk' = <<>>
    /\ tmp' = <<<<>>>>
    /\ pc' = "write"
    /\ UNCHANGED <<backups, now, faults, locals, log, aside>>

\* open(temp_path, 'w'): the temporary file is created empty, or the open
\* raises and nothing is created
OpenTemp ==
    /\ pc = "open"
    /\ \/ /\ tmp' = <<<<>>>>
          /\ pc' = "write"
          /\ UNCHANGED <<faults, fault, ret>>
       \/ /\ Raise("open")
          /\ UNCHANGED tmp
    /\ UNCHANGED <<disk, backups, now, app_id, launch_command,
                   config_content, new_config, escaped_command, backup_path,
                   backed_up, swapped, log, aside>>

\* f.write(new_config) and the close of the file: the whole text is
\* written, or the write raises after part of it
WriteTemp ==
    /\ pc = "write"
    /\ \/ /\ tmp' = <<new_config>>
          /\ pc' = "swap"
          /\ UNCHANGED <<faults, fault, ret>>
       \/ /\ Raise("write")
          /\ \E k \in {0, Len(new_config) \div 2} :
                tmp' = <<Slice(new_config, 0, k)>>
    /\ UNCHANGED <<disk, backups, now, app_id, launch_command,
                   config_content, new_config, escaped_command, backup_path,
                   backed_up, swapped, log, aside>>

\* os.replace(temp_path, config_path): the target becomes the temporary
\* file in one step, or the call raises and changes nothing
Swap ==
    /\ pc = "swap"
    /\ \/ /\ tmp # <<>>
          /\ disk' = tmp[1]
          /\ tmp' = <<>>
          /\ swapped' = TRUE
          /\ pc' = "verify"
          /\ UNCHANGED <<faults, fault, ret>>
       \/ /\ Raise("replace")
          /\ UNCHANGED <<disk, tmp, swapped>>
    /\ UNCHANGED <<backups, now, app_id, launch_command, config_content,
                   new_config, escaped_command, backup_path, backed_up, log,
                   aside>>

\* f'"{app_id}"' in verification_content
\*     and escaped_command in verification_content
Verified(verification_content, a, escaped) ==
    /\ Contains(verification_content, app_pattern(a))
    /\ Contains(verification_content, escaped)


\* A plausible slip: only the record key is looked for.
VerifyKeyOnly ==
    /\ pc = "verify"
    /\ ret' = Contains(TextRead(disk), app_pattern(app_id))
    /\ pc' = "cleanup"
    /\ UNCHANGED <<fs, now, faults, app_id, launch_command, config_content,
                   new_config, escaped_command, backup_path, backed_up,
                   swapped, fault, log, aside>>

\* A plausible slip: the warning branch returns True as well.
VerifyWarnsOnly ==
    /\ pc = "verify"
    /\ ret' = TRUE
    /\ pc' = "cleanup"
    /\ UNCHANGED <<fs, now, faults, app_id, launch_command, config_content,
                   new_config, escaped_command, backup_path, backed_up,
                   swapped, fault, log, aside>>

\* The target is read again, as text, and searched for the key and the
\* value; or the read raises and False is returned after the swap
Verify ==
    /\ pc = "verify"
    /\ \/ /\ ret' = Verified(TextRead(disk), app_id, escaped_command)
          /\ pc' = "cleanup"
          /\ UNCHANGED <<faults, fault>>
       \/ Raise("verify")
    /\ UNCHANGED <<fs, now, app_id, launch_command, config_content,
                   new_config, escaped_command, backup_path, backed_up,
                   swapped, log, aside>>

\* A plausible slip: the finally clause is missing.
CleanupKeepsTemp ==
    /\ pc = "cleanup"
    /\ Return(ret, "none", "done")
    /\ UNCHANGED <<fs, now, faults, aside>>

\* finally: if temp_path.exists(), temp_path.unlink() removes the
\* temporary file, or raises and is passed over, the file staying where it
\* is; then the invocation returns. temp_path.exists() is outside that
\* try: when it raises, unlink is not called and the except clause of the
\* whole function returns False in place of the pending value. What made
\* a step of the try block fail and leave the file can make these fail
\* too: the budget of failures has one more for them then
Cleanup ==
    /\ pc = "cleanup"
    /\ \/ /\ tmp = <<>>
          /\ Return(ret, "none", "done")
          /\ UNCHANGED <<tmp, faults>>
       \/ /\ tmp # <<>>
          /\ tmp' = <<>>
          /\ Return(ret, "removed", "done")
          /\ UNCHANGED faults
       \/ /\ tmp # <<>>
          /\ faults <= MaxFaults
          /\ faults' = faults + 1
          /\ Return(ret, "failed", "done")
          /\ UNCHANGED tmp
       \/ /\ MayFail \/ (tmp # <<>> /\ faults <= MaxFaults)
          /\ faults' = faults + 1
          /\ Return(FALSE, "none", "raised")
          /\ UNCHANGED tmp
    /\ UNCHANGED <<disk, backups, now, aside>>

Next ==
    \/ \E request \in SequenceRequests : Call(request)
    \/ Locate
    \/ Backup
    \/ OpenTemp
    \/ WriteTemp
    \/ Swap
    \/ Verify
    \/ Cleanup

Spec == Init /\ [][Next]_vars

\* ------------------------------------------------------------------------
\* The codec on its own: one string is encoded, then decoded
\* ------------------------------------------------------------------------
RECURSIVE Strings(_)
Strings(n) ==
    IF n = 0 THEN { <<>> }
    ELSE Strings(n - 1)
            \cup { Append(s, c) : s \in Strings(n - 1), c \in {"h", Q, BS} }

CodecInit ==
    /\ raw \in Strings(MaxRawLen)
    /\ text = <<>>
    /\ phase = "raw"
    /\ disk = <<>> /\ tmp = <<>> /\ backups = NoBackups /\ now = 0
    /\ faults = 0 /\ pc = "off"
    /\ app_id = <<>> /\ launch_command = <<>> /\ config_content = <<>>
    /\ new_config = <<>> /\ escaped_command = <<>> /\ backup_path = -1
    /\ backed_up = FALSE /\ swapped = FALSE /\ fault = "none" /\ ret = FALSE
    /\ log = <<>>
    /\ CatalogOff /\ ApplyOff /\ RacingOff

CodecEncode ==
    /\ phase = "raw"
    /\ text' = Encode(raw)
    /\ phase' = "encoded"
    /\ UNCHANGED <<raw, fs, now, faults, pc, locals, log, catalog_vars,
                   apply_vars, racing, original>>

CodecDecode ==
    /\ phase = "encoded"
    /\ text' = Decode(text)
    /\ phase' = "decoded"
    /\ UNCHANGED <<raw, fs, now, faults, pc, locals, log, catalog_vars,
                   apply_vars, racing, original>>

CodecNext == CodecEncode \/ CodecDecode

SpecCodec == CodecInit /\ [][CodecNext]_vars


\* ------------------------------------------------------------------------
\* get_launch_options_catalog, step by step
\* ------------------------------------------------------------------------
\* The engine and the codec are not running
EngineOff ==
    /\ disk = <<>> /\ tmp = <<>> /\ backups = NoBackups /\ now = 0
    /\ faults = 0 /\ pc = "off"
    /\ app_id = <<>> /\ launch_command = <<>> /\ config_content = <<>>
    /\ new_config = <<>> /\ escaped_command = <<>> /\ backup_path = -1
    /\ backed_up = FALSE /\ swapped = FALSE /\ fault = "none" /\ ret = FALSE
    /\ log = <<>>
    /\ raw = <<>> /\ text = <<>> /\ phase = "off"

engine == <<fs, now, faults, pc, locals, log, codec, racing, original>>

\* catalog = { ... }
BuildCatalog ==
    /\ cpc = "build"
    /\ catalog' = base_catalog
    /\ item' = 1
    /\ cpc' = IF rdna3_workaround THEN "variants" ELSE "filter"
    /\ UNCHANGED <<rdna3_workaround, include_mangohud, rdna3_options,
                   selected, engine, apply_vars>>

\* One round of  for key, option in catalog.items()
AddVariant ==
    /\ cpc = "variants"
    /\ item <= Len(catalog)
    /\ rdna3_options' =
        IF ~Contains(catalog[item].command, dxil_spirv_config)
        THEN Update(rdna3_options, <<Rdna3Option(catalog[item])>>)
        ELSE rdna3_options
    /\ item' = item + 1
    /\ UNCHANGED <<rdna3_workaround, include_mangohud, catalog, cpc,
                   selected, engine, apply_vars>>

\* catalog.update(rdna3_options)
UpdateCatalog ==
    /\ cpc = "variants"
    /\ item > Len(catalog)
    /\ catalog' = Update(catalog, rdna3_options)
    /\ cpc' = "filter"
    /\ UNCHANGED <<rdna3_workaround, include_mangohud, rdna3_options, item,
                   selected, engine, apply_vars>>

\* The filter, and the return
FilterCatalog ==
    /\ cpc = "filter"
    /\ catalog' = IF ~include_mangohud THEN WithoutMangohud(catalog)
                  ELSE catalog
    /\ cpc' = "return"
    /\ UNCHANGED <<rdna3_workaround, include_mangohud, rdna3_options, item,
                   selected, engine, apply_vars>>


\* ------------------------------------------------------------------------
\* apply_steam_launch_options as a whole, with the reload of
\* _signal_steam_config_reload: one invocation
\* ------------------------------------------------------------------------
\* What the checks of the installation can find
Installs ==
    {"no_steam_path", "no_userdata", "no_user_dirs", "no_localconfig",
     "complete"}

ApplyInit ==
    /\ install \in Installs
    /\ disk \in IF install = "complete" THEN Documents \cup Crafted
                 ELSE {<<>>}
    /\ tmp = <<>>
    /\ backups = NoBackups
    /\ now = 0
    /\ faults = 0
    /\ pc = "idle"
    /\ app_id = <<>> /\ launch_command = <<>> /\ config_content = <<>>
    /\ new_config = <<>> /\ escaped_command = <<>> /\ backup_path = -1
    /\ backed_up = FALSE /\ swapped = FALSE /\ fault = "none" /\ ret = FALSE
    /\ log = <<>>
    /\ raw = <<>> /\ text = <<>> /\ phase = "off"
    /\ apc = "start" /\ steam_running = FALSE /\ stages = <<>>
    /\ touched = FALSE /\ pids = 0 /\ hup_sent = 0 /\ note = FALSE
    /\ apply_ret = FALSE
    /\ CatalogOff /\ RacingOff

\* apply_steam_launch_options returns value
ApplyReturn(value) ==
    /\ apply_ret' = value
    /\ apc' = "done"

\* The checks of the installation: each one that fails returns False, and
\* so does an exception raised by one of them
CheckPaths(request) ==
    /\ apc = "start"
    /\ app_id' = request.app_id
    /\ launch_command' = request.launch_command
    /\ stages' = Append(stages, "paths")
    /\ \/ /\ install = "complete"
          /\ apc' = "pgrep"
          /\ UNCHANGED <<faults, apply_ret>>
       \/ /\ install # "complete"
          /\ ApplyReturn(FALSE)
          /\ UNCHANGED faults
       \/ /\ MayFail
          /\ faults' = faults + 1
          /\ ApplyReturn(FALSE)
    /\ UNCHANGED <<fs, now, pc, config_content, new_config, escaped_command,
                   backup_path, backed_up, swapped, fault, ret, log, codec,
                   catalog_vars, racing, original, install, steam_running,
                   touched, pids, hup_sent, note>>

\* pgrep -f steam: steam_running is True when it exits with 0, and stays
\* False when it does not or cannot be run
Pgrep ==
    /\ apc = "pgrep"
    /\ steam_running' \in BOOLEAN
    /\ stages' = Append(stages, "pgrep")
    /\ apc' = "read"
    /\ UNCHANGED <<fs, now, faults, pc, locals, log, codec, racing, original,
                   catalog_vars,
                   install, touched, pids, hup_sent, note, apply_ret>>

\* The file is read and handed to _modify_vdf_launch_options, or the read
\* raises and False is returned
ReadConfig ==
    /\ apc = "read"
    /\ pc = "idle"
    /\ stages' = Append(stages, "read")
    /\ \/ /\ original' = disk
          /\ config_content' = TextRead(disk)
          /\ pc' = "locate"
          /\ apc' = "modify"
          /\ UNCHANGED <<faults, apply_ret>>
       \/ /\ MayFail
          /\ faults' = faults + 1
          /\ ApplyReturn(FALSE)
          /\ UNCHANGED <<pc, config_content, original>>
    /\ UNCHANGED <<fs, now, app_id, launch_command, new_config,
                   escaped_command, backup_path, backed_up, swapped, fault,
                   ret, log, codec, racing,
                   catalog_vars, install, steam_running,
                   touched, pids, hup_sent, note>>

\* A plausible slip: the reload is asked for whenever Steam is running.
ModifiedReloadsAlways ==
    /\ apc = "modify"
    /\ pc = "idle"
    /\ log # <<>>
    /\ stages' = Append(stages, "modify")
    /\ IF steam_running
       THEN apc' = "signal" /\ UNCHANGED apply_ret
       ELSE ApplyReturn(log[Len(log)].ret)
    /\ UNCHANGED <<fs, now, faults, pc, locals, log, codec, racing, original,
                   catalog_vars,
                   install, steam_running, touched, pids, hup_sent, note>>

\* _modify_vdf_launch_options has returned success: on True the reload
\* follows if Steam is running and True is returned otherwise, on False
\* False is returned
Modified ==
    /\ apc = "modify"
    /\ pc = "idle"
    /\ log # <<>>
    /\ stages' = Append(stages, "modify")
    /\ IF log[Len(log)].ret /\ steam_running
       THEN apc' = "signal" /\ UNCHANGED apply_ret
       ELSE ApplyReturn(log[Len(log)].ret)
    /\ UNCHANGED <<fs, now, faults, pc, locals, log, codec, racing, original,
                   catalog_vars,
                   install, steam_running, touched, pids, hup_sent, note>>

\* Processes that pgrep can find for the reload
MaxPids == 2

\* A plausible slip: the reload lets its exception through, and the except
\* clause of the caller returns False.
TouchConfigRaises ==
    /\ apc = "signal"
    /\ stages' = Append(stages, "signal")
    /\ \/ /\ touched' = (install = "complete")
          /\ apc' = "lookup"
          /\ UNCHANGED <<note, apply_ret>>
       \/ /\ note' = FALSE
          /\ ApplyReturn(FALSE)
          /\ UNCHANGED touched
    /\ UNCHANGED <<fs, now, faults, pc, locals, log, codec, racing, original,
                   catalog_vars, install, steam_running, pids, hup_sent>>

\* The reload looks for the file and sets its times with os.utime when it
\* is there; when the search or os.utime raises, the note is printed and
\* the reload is over
TouchConfig ==
    /\ apc = "signal"
    /\ stages' = Append(stages, "signal")
    /\ \/ /\ touched' = (install = "complete")
          /\ apc' = "lookup"
          /\ UNCHANGED note
       \/ /\ note' = TRUE
          /\ apc' = "reloaded"
          /\ UNCHANGED touched
    /\ UNCHANGED <<fs, now, faults, pc, locals, log, codec, racing, original,
                   catalog_vars, install, steam_running, pids, hup_sent,
                   apply_ret>>

\* pgrep -f steam of the reload: the processes it prints are to be
\* signalled; there are none when it exits with another code than 0 or
\* cannot be run
LookupPids ==
    /\ apc = "lookup"
    /\ pids' \in 0..MaxPids
    /\ apc' = "kill"
    /\ UNCHANGED <<fs, now, faults, pc, locals, log, codec, racing, original,
                   catalog_vars, install, steam_running, stages, touched,
                   hup_sent, note, apply_ret>>

\* One round of  for pid in pids:  kill -HUP is run for the process, or
\* cannot be run
KillHup ==
    /\ apc = "kill"
    /\ pids > 0
    /\ pids' = pids - 1
    /\ hup_sent' \in {hup_sent, hup_sent + 1}
    /\ UNCHANGED <<fs, now, faults, pc, locals, log, codec, racing, original,
                   catalog_vars, install, apc, steam_running, stages,
                   touched, note, apply_ret>>

\* _signal_steam_config_reload has returned: apply_steam_launch_options
\* returns True
Reloaded ==
    /\ \/ apc = "reloaded"
       \/ apc = "kill" /\ pids = 0
    /\ ApplyReturn(TRUE)
    /\ UNCHANGED <<fs, now, faults, pc, locals, log, codec, racing, original,
                   catalog_vars, install, steam_running, stages, touched,
                   pids, hup_sent, note>>

ApplyNext ==
    \/ \E request \in ApplyRequests : CheckPaths(request)
    \/ Pgrep \/ ReadConfig
    \/ Locate \/ Backup \/ OpenTemp \/ WriteTemp \/ Swap \/ Verify \/ Cleanup
    \/ Modified \/ TouchConfig \/ LookupPids \/ KillHup \/ Reloaded

SpecApply == ApplyInit /\ [][ApplyNext]_vars


\* ------------------------------------------------------------------------
\* The menu of add_steam_launch_options (auto_apply): the catalog is built,
\* a number is typed, an entry is confirmed or not, and a confirmed entry's
\* command is applied by apply_steam_launch_options
\* ------------------------------------------------------------------------
\* The files the menu's invocation can find at config_path
MenuDocuments ==
    { Document(body_scenario_a, <<>>), Document(body_canonical, <<>>) }

\* mangohud is on the path or not, the catalog is not built yet, and
\* nothing has been applied
CatalogInit ==
    /\ rdna3_workaround \in BOOLEAN
    /\ include_mangohud \in BOOLEAN
    /\ catalog = <<>> /\ rdna3_options = <<>> /\ item = 0
    /\ cpc = "build"
    /\ selected = NoSelection("none")
    /\ install \in Installs
    /\ disk \in IF install = "complete" THEN MenuDocuments ELSE {<<>>}
    /\ tmp = <<>> /\ backups = NoBackups /\ now = 0
    /\ faults = 0 /\ pc = "idle"
    /\ app_id = <<>> /\ launch_command = <<>> /\ config_content = <<>>
    /\ new_config = <<>> /\ escaped_command = <<>> /\ backup_path = -1
    /\ backed_up = FALSE /\ swapped = FALSE /\ fault = "none" /\ ret = FALSE
    /\ log = <<>>
    /\ raw = <<>> /\ text = <<>> /\ phase = "off"
    /\ apc = "off" /\ steam_running = FALSE /\ stages = <<>>
    /\ touched = FALSE /\ pids = 0 /\ hup_sent = 0 /\ note = FALSE
    /\ apply_ret = FALSE
    /\ RacingOff

\* choice = int(input(...)): the number typed is that of an entry, which
\* waits for its confirmation, or that of one of the two lines after the
\* entries, or neither; the menu then returns False, as it does for a text
\* that is no number
Select(choice) ==
    /\ cpc = "return"
    /\ LET index_map == IndexMap(catalog, category_order)
           choice_index == Len(index_map) + 1
       IN IF choice = choice_index
          THEN selected' = NoSelection("view") /\ cpc' = "selected"
          ELSE IF choice = choice_index + 1
          THEN selected' = NoSelection("cancel") /\ cpc' = "selected"
          ELSE IF choice \in DOMAIN index_map
          THEN /\ selected' = [outcome |-> "chosen",
                               key |-> index_map[choice].key,
                               command |-> index_map[choice].command,
                               ret |-> FALSE]
               /\ cpc' = "confirm"
          ELSE selected' = NoSelection("invalid") /\ cpc' = "selected"
    /\ UNCHANGED <<rdna3_workaround, include_mangohud, catalog,
                   rdna3_options, item, engine, apply_vars>>

\* confirm = input(...).lower(): 'y' starts apply_steam_launch_options with
\* the entry's command, any other answer returns False
Confirm(answer) ==
    /\ cpc = "confirm"
    /\ IF answer
       THEN /\ selected' = [selected EXCEPT !.outcome = "apply"]
            /\ cpc' = "apply"
            /\ apc' = "start"
       ELSE /\ selected' = [selected EXCEPT !.outcome = "declined"]
            /\ cpc' = "selected"
            /\ UNCHANGED apc
    /\ UNCHANGED <<rdna3_workaround, include_mangohud, catalog,
                   rdna3_options, item, engine, install, steam_running,
                   stages, touched, pids, hup_sent, note, apply_ret>>

\* apply_steam_launch_options has returned: the menu returns True when it
\* returned True, and False when it did not
Applied ==
    /\ cpc = "apply"
    /\ apc = "done"
    /\ selected' = [selected EXCEPT !.ret = apply_ret]
    /\ cpc' = "selected"
    /\ UNCHANGED <<rdna3_workaround, include_mangohud, catalog,
                   rdna3_options, item, engine, apply_vars>>

CatalogNext ==
    \/ BuildCatalog \/ AddVariant \/ UpdateCatalog \/ FilterCatalog
    \/ \E choice \in 0..(Len(catalog) + 2) : Select(choice)
    \/ \E answer \in BOOLEAN : Confirm(answer)
    \/ \E request \in {[app_id |-> <<"7">>,
                         launch_command |-> selected.command]} :
            CheckPaths(request)
    \/ Pgrep \/ ReadConfig
    \/ Locate \/ Backup \/ OpenTemp \/ WriteTemp \/ Swap \/ Verify \/ Cleanup
    \/ Modified \/ TouchConfig \/ LookupPids \/ KillHup \/ Reloaded
    \/ Applied

SpecCatalog == CatalogInit /\ [][CatalogNext]_vars


\* ------------------------------------------------------------------------
\* Invocations of apply_steam_launch_options that run side by side on one
\* config_path, and the owner of the file that rewrites it meanwhile. Files
\* are inodes: a name may come to point to another inode while a handle
\* still writes to the one it opened. No step of these invocations raises:
\* the steps that fail are those of the invocations above.
\* ------------------------------------------------------------------------
\* Rewrites of the target by its owner per behaviour
MaxRewrites == 1

\* The byte that fills the gap when a write starts past the end of a file
NUL == "NUL"

\* An invocation that has not read the file yet
Fresh ==
    [pc |-> "start", app_id |-> <<>>, launch_command |-> <<>>,
     config_content |-> <<>>, new_config |-> <<>>, escaped_command |-> <<>>,
     backup_path |-> -1, source |-> 0, copied |-> 0, backed_up |-> FALSE,
     handle |-> 0, offset |-> 0,
     swapped |-> FALSE, ret |-> FALSE]

\* The documents the invocations find, and those the owner writes
RacingDocuments ==
    { Document(body_name_line, <<>>), Document(body_canonical, <<>>) }
OwnerDocuments ==
    { Document(body_name_line, sibling_path),
      Document(body_canonical, sibling_path) }

\* The content of config_path
TargetContent == inodes[target]

\* write(2) of data at offset of a file that holds content
WriteAt(content, offset, data) ==
    LET padded ==
            IF Len(content) < offset
            THEN content \o [i \in 1..(offset - Len(content)) |-> NUL]
            ELSE content
    IN Slice(padded, 0, offset) \o data
           \o Slice(padded, offset + Len(data), Len(padded))

\* What one write of the buffered file object may carry: all that is left,
\* or, for a text longer than the buffer, a first part of it
ChunkLengths(data, offset) ==
    IF offset = 0
    THEN {Len(data), Len(data) \div 2} \ {0}
    ELSE {Len(data) - offset}

RacingInit(invocations) ==
    /\ inodes \in { <<d>> : d \in RacingDocuments }
    /\ target = 1
    /\ temp = 0
    /\ procs = [p \in 1..invocations |-> Fresh]
    /\ rewrites = 0
    /\ original = <<>>
    /\ EngineOff /\ CatalogOff /\ ApplyOff

\* What the steps of the invocations leave alone
beside ==
    <<disk, tmp, faults, pc, locals, log, codec, catalog_vars, apply_vars,
      original>>

\* The file is read and passed on; the record is located and the new
\* document is built, or False is returned
ReadAndLocate(p, request) ==
    /\ procs[p].pc = "start"
    /\ procs' =
        [procs EXCEPT ![p] =
            IF LocateRecord(TextRead(TargetContent), request.app_id).found
            THEN [@ EXCEPT !.pc = "backup",
                           !.app_id = request.app_id,
                           !.launch_command = request.launch_command,
                           !.config_content = TextRead(TargetContent),
                           !.new_config =
                               NewConfig(TextRead(TargetContent),
                                         request.app_id,
                                         request.launch_command),
                           !.escaped_command =
                               Encode(request.launch_command)]
            ELSE [@ EXCEPT !.pc = "done",
                           !.app_id = request.app_id,
                           !.launch_command = request.launch_command,
                           !.config_content = TextRead(TargetContent)]]
    /\ UNCHANGED <<inodes, target, temp, rewrites, backups, now, beside>>

\* timestamp = datetime.now()...: the clock is read and names backup_path
ReadClock(p) ==
    /\ procs[p].pc = "backup"
    /\ \E ts \in Seconds :
        /\ now' = ts
        /\ procs' = [procs EXCEPT ![p] = [@ EXCEPT !.pc = "copy_src",
                                                   !.backup_path = ts]]
    /\ UNCHANGED <<inodes, target, temp, rewrites, backups, beside>>

\* shutil.copy2, open(src, 'rb'): the handle is on the file config_path
\* names now
OpenSource(p) ==
    /\ procs[p].pc = "copy_src"
    /\ procs' = [procs EXCEPT ![p] = [@ EXCEPT !.pc = "copy_dst",
                                               !.source = target]]
    /\ UNCHANGED <<inodes, target, temp, rewrites, backups, now, beside>>

\* shutil.copy2, open(dst, 'wb'): the file at backup_path is made, or
\* truncated when it is there
OpenBackup(p) ==
    /\ procs[p].pc = "copy_dst"
    /\ backups' = [t \in DOMAIN backups \cup {procs[p].backup_path} |->
                      IF t = procs[p].backup_path THEN <<>> ELSE backups[t]]
    /\ procs' = [procs EXCEPT ![p] = [@ EXCEPT !.pc = "copy",
                                               !.copied = 0]]
    /\ UNCHANGED <<inodes, target, temp, rewrites, now, beside>>

\* shutil.copy2, one round of the loop over os.sendfile: what the source
\* holds from the offset on is written to the backup at the handle's own
\* offset; the loop ends, and the files are closed, when nothing is left
SendFile(p) ==
    /\ procs[p].pc = "copy"
    /\ \A data \in {Slice(inodes[procs[p].source], procs[p].copied,
                          Len(inodes[procs[p].source]))} :
        IF data = <<>>
        THEN /\ procs' = [procs EXCEPT ![p] = [@ EXCEPT !.pc = "copystat"]]
             /\ UNCHANGED backups
        ELSE /\ backups' =
                  [backups EXCEPT ![procs[p].backup_path] =
                      WriteAt(@, procs[p].copied, data)]
             /\ procs' = [procs EXCEPT ![p] =
                             [@ EXCEPT !.copied = @ + Len(data)]]
    /\ UNCHANGED <<inodes, target, temp, rewrites, now, beside>>

\* shutil.copy2, copystat: the times and the mode are copied, and the copy
\* has returned
CopyStat(p) ==
    /\ procs[p].pc = "copystat"
    /\ procs' = [procs EXCEPT ![p] = [@ EXCEPT !.pc = "open",
                                               !.backed_up = TRUE]]
    /\ UNCHANGED <<inodes, target, temp, rewrites, backups, now, beside>>

\* open(temp_path, 'w'): the file the name points to is truncated, or a
\* new file is made
OpenTempFile(p) ==
    /\ procs[p].pc = "open"
    /\ IF temp = 0
       THEN /\ inodes' = Append(inodes, <<>>)
            /\ temp' = Len(inodes) + 1
       ELSE /\ inodes' = [inodes EXCEPT ![temp] = <<>>]
            /\ UNCHANGED temp
    /\ procs' = [procs EXCEPT ![p] = [@ EXCEPT !.pc = "write",
                                               !.handle = temp',
                                               !.offset = 0]]
    /\ UNCHANGED <<target, rewrites, backups, now, beside>>

\* f.write(new_config) and the end of the with block: the text reaches the
\* file the handle was opened on, at the handle's own offset
WriteChunk(p) ==
    /\ procs[p].pc = "write"
    /\ \E n \in ChunkLengths(procs[p].new_config, procs[p].offset) :
        /\ inodes' =
            [inodes EXCEPT ![procs[p].handle] =
                WriteAt(@, procs[p].offset,
                        Slice(procs[p].new_config, procs[p].offset,
                              procs[p].offset + n))]
        /\ procs' =
            [procs EXCEPT ![p] =
                [@ EXCEPT !.offset = @ + n,
                          !.pc = IF procs[p].offset + n
                                      = Len(procs[p].new_config)
                                 THEN "replace" ELSE "write"]]
    /\ UNCHANGED <<target, temp, rewrites, backups, now, beside>>

\* A plausible slip: the file is read again and patched at the swap.
OsReplaceRepatching(p) ==
    /\ procs[p].pc = "replace"
    /\ IF temp = 0
       THEN /\ procs' = [procs EXCEPT ![p] = [@ EXCEPT !.pc = "cleanup"]]
            /\ UNCHANGED <<inodes, target, temp>>
       ELSE /\ inodes' =
                [inodes EXCEPT ![temp] =
                    NewConfig(TextRead(TargetContent), procs[p].app_id,
                              procs[p].launch_command)]
            /\ target' = temp
            /\ temp' = 0
            /\ procs' = [procs EXCEPT ![p] = [@ EXCEPT !.pc = "verify",
                                                       !.swapped = TRUE]]
    /\ UNCHANGED <<rewrites, backups, now, beside>>

\* os.replace(temp_path, config_path): config_path names the file temp_path
\* named; FileNotFoundError when temp_path names none
OsReplace(p) ==
    /\ procs[p].pc = "replace"
    /\ IF temp = 0
       THEN /\ procs' = [procs EXCEPT ![p] = [@ EXCEPT !.pc = "cleanup"]]
            /\ UNCHANGED <<inodes, target, temp>>
       ELSE /\ target' = temp
            /\ temp' = 0
            /\ procs' = [procs EXCEPT ![p] = [@ EXCEPT !.pc = "verify",
                                                       !.swapped = TRUE]]
            /\ UNCHANGED inodes
    /\ UNCHANGED <<rewrites, backups, now, beside>>

\* The target is read again and searched for the key and the value
VerifyRead(p) ==
    /\ procs[p].pc = "verify"
    /\ procs' =
        [procs EXCEPT ![p] =
            [@ EXCEPT !.pc = "cleanup",
                      !.ret = Verified(TextRead(TargetContent),
                                       procs[p].app_id,
                                       procs[p].escaped_command)]]
    /\ UNCHANGED <<inodes, target, temp, rewrites, backups, now, beside>>

\* finally: temp_path is unlinked if it exists
UnlinkTemp(p) ==
    /\ procs[p].pc = "cleanup"
    /\ temp' = 0
    /\ procs' = [procs EXCEPT ![p] = [@ EXCEPT !.pc = "done"]]
    /\ UNCHANGED <<inodes, target, rewrites, backups, now, beside>>

\* The owner of the file replaces it by a document of its own
ExternalRewrite ==
    /\ rewrites < MaxRewrites
    /\ \E d \in OwnerDocuments \ {TargetContent} :
        /\ inodes' = Append(inodes, d)
        /\ target' = Len(inodes) + 1
    /\ rewrites' = rewrites + 1
    /\ UNCHANGED <<temp, procs, backups, now, beside>>

\* The invocations there may be
Invocations == {1, 2}

RacingNext ==
    \/ \E p \in Invocations, request \in Requests :
            p \in DOMAIN procs /\ ReadAndLocate(p, request)
    \/ \E p \in Invocations : p \in DOMAIN procs /\ ReadClock(p)
    \/ \E p \in Invocations : p \in DOMAIN procs /\ OpenSource(p)
    \/ \E p \in Invocations : p \in DOMAIN procs /\ OpenBackup(p)
    \/ \E p \in Invocations : p \in DOMAIN procs /\ SendFile(p)
    \/ \E p \in Invocations : p \in DOMAIN procs /\ CopyStat(p)
    \/ \E p \in Invocations : p \in DOMAIN procs /\ OpenTempFile(p)
    \/ \E p \in Invocations : p \in DOMAIN procs /\ WriteChunk(p)
    \/ \E p \in Invocations : p \in DOMAIN procs /\ OsReplace(p)
    \/ \E p \in Invocations : p \in DOMAIN procs /\ VerifyRead(p)
    \/ \E p \in Invocations : p \in DOMAIN procs /\ UnlinkTemp(p)

SpecConcurrent == RacingInit(2) /\ [][RacingNext]_vars

ExternalNext == ExternalRewrite \/ RacingNext

SpecExternal == RacingInit(1) /\ [][ExternalNext]_vars

\* ------------------------------------------------------------------------
\* Properties
\* ------------------------------------------------------------------------
Last(l) == l[Len(l)]

\* The interior of the record of app id a in doc
RecordOf(doc, a) == SectionContent(doc, LocateRecord(doc, a))

\* The interior of the patched record on disk, cut out at the offsets the
\* record had in the document the invocation was given
NewRecord ==
    LET span == LocateRecord(config_content, app_id)
    IN Slice(disk, span.start_pos,
             Len(disk) - (Len(config_content) - span.brace_end))

\* The invocation has just swapped on the replace path
JustReplaced ==
    pc = "verify" /\ ReSearch(RecordOf(config_content, app_id), 0) # -1

\* Offsets at which the key token "LaunchOptions" occurs in s
KeyOffsets(s) ==
    {i \in 0..Len(s) : StartsAt(s, launch_options_key, i)}

\* The text between the quotes of the first field matched in s
FieldValue(s) ==
    LET p == ReSearch(s, 0)
    IN Slice(s, ValueStart(s, p) + 1, MatchEnd(s, p) - 1)

\* Number of matches of the field pattern in s from pos
RECURSIVE MatchCount(_, _)
MatchCount(s, pos) ==
    LET p == ReSearch(s, pos)
    IN IF p = -1 THEN 0 ELSE 1 + MatchCount(s, MatchEnd(s, p))

\* s with every match of the field pattern rewritten as the key token, two
\* tabs and the quoted text x
RECURSIVE Rewritten(_, _, _)
Rewritten(s, pos, x) ==
    LET p == ReSearch(s, pos)
    IN IF p = -1 THEN Slice(s, pos, Len(s))
       ELSE Slice(s, pos, p) \o launch_options_key \o <<TAB, TAB, Q>> \o x
                \o <<Q>> \o Rewritten(s, MatchEnd(s, p), x)

\* C1: the document committed by the swap equals the document the
\* invocation was given up to and including the record's opening brace and
\* from the record's closing brace onward.
C1_FrameOutsideRecord ==
    pc = "verify" =>
        \A span \in {LocateRecord(config_content, app_id)} :
        LET tail == Len(config_content) - span.brace_end
        IN /\ Len(disk) >= span.start_pos + tail
           /\ Slice(disk, 0, span.start_pos)
                = Slice(config_content, 0, span.start_pos)
           /\ Slice(disk, Len(disk) - tail, Len(disk))
                = Slice(config_content, span.brace_end, Len(config_content))

\* A replace-path swap of an invocation that follows an insert-path swap
C1_Witness ==
    /\ JustReplaced
    /\ disk # config_content
    /\ log # <<>>
    /\ log[1].swapped
    /\ ReSearch(RecordOf(log[1].before, log[1].app_id), 0) = -1

\* C2 as stated: on the replace path everything of the record up to the
\* opening quote of the first matched field's value, and everything after
\* that value's closing quote, is the same before and after the patch.
C2_OnlyValueChanges ==
    JustReplaced =>
        LET rec == RecordOf(config_content, app_id)
            p == ReSearch(rec, 0)
            vs == ValueStart(rec, p)
            rest == Len(rec) - MatchEnd(rec, p)
        IN /\ Len(NewRecord) >= vs + 1 + rest
           /\ Slice(NewRecord, 0, vs + 1) = Slice(rec, 0, vs + 1)
           /\ Slice(NewRecord, Len(NewRecord) - rest, Len(NewRecord))
                = Slice(rec, MatchEnd(rec, p), Len(rec))

\* C2 as amended: on the replace path every field of the record that the
\* pattern matches is rewritten as the key token, two tabs and one and the
\* same quoted text; every character outside the matched fields is kept.
C2_MatchedFieldsRewritten ==
    JustReplaced =>
        \A rec \in {RecordOf(config_content, app_id)}, new \in {NewRecord} :
        LET n == MatchCount(rec, 0)
            grown == Len(new) - Len(Rewritten(rec, 0, <<>>))
            from == ReSearch(rec, 0) + Len(launch_options_key) + 3
            x == Slice(new, from, from + grown \div n)
        IN /\ grown >= 0
           /\ grown % n = 0
           /\ new = Rewritten(rec, 0, x)

\* A replace-path swap of a field whose key and value were separated by
\* something other than two tabs
C2_Witness ==
    /\ JustReplaced
    /\ LET rec == RecordOf(config_content, app_id)
           p == ReSearch(rec, 0)
       IN Slice(rec, p + Len(launch_options_key), ValueStart(rec, p))
            # <<TAB, TAB>>
    /\ disk # config_content

\* C3: when the same request is applied twice in succession and both
\* invocations succeed, the document after the second is the document
\* after the first.
C3_Idempotent ==
    (pc = "idle" /\ Len(log) >= 2) =>
        LET first == log[Len(log) - 1]
            second == log[Len(log)]
        IN (/\ first.app_id = second.app_id
            /\ first.launch_command = second.launch_command
            /\ first.ret
            /\ second.ret)
           => second.after = first.after

\* C4: after successful patches of one record that started with at most
\* one target field, the record holds the key token once, and the field
\* pattern matches there.
C4_ExactlyOneField ==
    (/\ pc = "idle"
     /\ log # <<>>
     /\ \A i \in DOMAIN log : log[i].ret /\ log[i].app_id = log[1].app_id
     /\ Cardinality(KeyOffsets(RecordOf(log[1].before, log[1].app_id))) <= 1)
    => LET rec == RecordOf(disk, log[1].app_id)
       IN /\ Cardinality(KeyOffsets(rec)) = 1
          /\ \A i \in KeyOffsets(rec) : MatchEnd(rec, i) # -1

\* C5: after the swap the value text of the target field in the record on
\* disk is the encoding of the requested value.
C5_StoredValueIsEncoded ==
    pc = "verify" =>
        /\ ReSearch(NewRecord, 0) # -1
        /\ FieldValue(NewRecord) = Encode(launch_command)

\* C6: decoding the encoding of a string gives the string back.
C6_RoundTrip == phase = "decoded" => text = raw

\* A string with a backslash and a quote has been encoded and decoded
C6_Witness ==
    /\ phase = "decoded"
    /\ \E i, j \in DOMAIN raw : i < j /\ raw[i] = BS /\ raw[j] = Q

\* C7: an invocation whose record key does not occur in the document
\* returns failure and leaves the target, the backups and the temporary
\* file as they were: it makes no backup and no temporary file.
C7_AbsentKeyNoEffect ==
    (/\ pc = "idle"
     /\ log # <<>>
     /\ ~Contains(Last(log).before, app_pattern(Last(log).app_id)))
    => /\ ~Last(log).ret
       /\ Last(log).after = Last(log).original
       /\ disk = Last(log).original
       /\ Last(log).unlink = "none"
       /\ tmp = IF Len(log) = 1 THEN <<>> ELSE log[Len(log) - 1].temp
       /\ backups = IF Len(log) = 1 THEN NoBackups
                    ELSE log[Len(log) - 1].backups

\* A request for an absent record has returned after an earlier
\* invocation had swapped and left a backup
C7_Witness ==
    /\ pc = "idle"
    /\ Len(log) = 2
    /\ log[1].swapped
    /\ log[1].backed_up
    /\ ~Contains(log[2].before, app_pattern(log[2].app_id))

\* C8: throughout an invocation the target holds the whole content it had
\* when the invocation's document was read until the swap, and the whole
\* new document from the swap on.
C8_TargetOldOrNew ==
    pc \in {"locate", "backup", "open", "write", "swap", "verify", "cleanup"}
    => /\ swapped <=> \/ pc = "verify"
                      \/ pc = "cleanup" /\ fault \in {"none", "verify"}
       /\ ~swapped => disk = original
       /\ swapped => disk = new_config

\* The write of the temporary file has failed part-way: the temporary
\* file holds a proper part of the new document
C8_Witness ==
    /\ pc = "cleanup"
    /\ fault = "write"
    /\ tmp # <<>>
    /\ tmp[1] # <<>>
    /\ tmp[1] # new_config
    /\ new_config # config_content

\* C9 as stated: no temporary file exists once an invocation has returned,
\* and an invocation in which the open, the write or the replace failed has
\* returned failure and left the target as it was.
C9_FailureLeavesNoTemp ==
    pc = "idle" =>
        /\ tmp = <<>>
        /\ (log # <<>> /\ Last(log).fault \in {"open", "write", "replace"})
           => /\ ~Last(log).ret
              /\ ~Last(log).swapped
              /\ Last(log).after = Last(log).original
              /\ disk = Last(log).original

\* C9, amended: an invocation in which the open, the write or the replace
\* failed has returned failure and left the target as it was; once an
\* invocation has returned the temporary file is gone, unless the removal
\* in the finally clause, or the look for the file before it, raised: then
\* the file the failed step left is still there. An invocation that swapped leaves no temporary file, and
\* one that returned before the try block leaves what it found.
C9_TempLeftOnlyByFailedUnlink ==
    pc = "idle" =>
        /\ (log # <<>> /\ Last(log).fault \in {"open", "write", "replace"})
           => /\ ~Last(log).ret
              /\ ~Last(log).swapped
              /\ Last(log).after = Last(log).original
              /\ disk = Last(log).original
        /\ tmp = IF log = <<>> THEN <<>> ELSE Last(log).temp
        /\ \A i \in DOMAIN log :
              /\ log[i].swapped => log[i].temp = <<>>
              /\ log[i].temp # <<>>
                 => \/ /\ log[i].unlink = "failed"
                       /\ log[i].finally = "done"
                       /\ log[i].fault \in {"open", "write", "replace"}
                    \/ /\ log[i].unlink = "none"
                       /\ log[i].finally = "raised"
                       /\ log[i].fault \in {"open", "write", "replace"}
                    \/ /\ log[i].unlink = "none"
                       /\ log[i].finally = "none"
                       /\ i > 1
                       /\ log[i].temp = log[i - 1].temp
                       /\ ~LocateRecord(log[i].before, log[i].app_id).found

\* An invocation whose write failed part-way has returned failure with the
\* removal failing too: the partly written temporary file is still there
C9_Witness ==
    /\ pc = "idle"
    /\ log # <<>>
    /\ Last(log).fault = "write"
    /\ Last(log).unlink = "failed"
    /\ ~Last(log).ret
    /\ tmp # <<>>
    /\ tmp[1] # <<>>
    /\ disk = Last(log).original

\* C10: from the copy to the return of an invocation whose backup step did
\* not fail, the backup exists and holds the content the target had when
\* the invocation began; no step removes a backup path.
C10_BackupBeforeSwap ==
    /\ [](backed_up =>
            /\ pc \in {"open", "write", "swap", "verify", "cleanup"}
            /\ backup_path \in DOMAIN backups
            /\ backups[backup_path] = original)
    /\ [][DOMAIN backups \subseteq DOMAIN backups']_vars

\* The swap has happened with two backups on disk
C10_Witness ==
    /\ pc = "verify"
    /\ backed_up
    /\ disk # original
    /\ Cardinality(DOMAIN backups) = 2

\* The invocation of log entry e reached the backup step and the copy failed
BackupFailed(e) == ~e.backed_up /\ LocateRecord(e.before, e.app_id).found

\* The target as the invocation of log entry e left it, read as text,
\* holds the quoted record key and the encoded value
Verifiable(e) ==
    /\ Contains(TextRead(e.after), app_pattern(e.app_id))
    /\ Contains(TextRead(e.after), Encode(e.launch_command))

\* C11: an invocation whose backup copy failed and whose open, write,
\* replace and verification read did not fail has swapped the new document
\* in and returned what the verification found, or False when its finally
\* clause raised.
C11_BackupFailureGoesOn ==
    (pc = "idle" /\ log # <<>> /\ Last(log).fault = "none"
        /\ BackupFailed(Last(log)))
    => /\ Last(log).swapped
       /\ Last(log).after
            = NewConfig(Last(log).before, Last(log).app_id,
                        Last(log).launch_command)
       /\ disk = Last(log).after
       /\ Last(log).ret
            = (Verifiable(Last(log)) /\ Last(log).finally = "done")

\* An invocation whose backup copy failed has returned success
C11_Witness ==
    /\ pc = "idle"
    /\ log # <<>>
    /\ BackupFailed(Last(log))
    /\ Last(log).backups = NoBackups
    /\ Last(log).swapped
    /\ Last(log).ret

\* C12: an invocation returns success only if it swapped and the target
\* then holds the quoted record key and the encoded value; an invocation
\* that swapped returns failure when one of the two is missing.
C12_SuccessIsVerifiedSwap ==
    (pc = "idle" /\ log # <<>>)
    => /\ Last(log).ret => (Last(log).swapped /\ Verifiable(Last(log)))
       /\ (Last(log).swapped /\ ~Verifiable(Last(log))) => ~Last(log).ret

\* An invocation has swapped a changed document in and returned failure
C12_Witness ==
    /\ pc = "idle"
    /\ log # <<>>
    /\ Last(log).swapped
    /\ Last(log).after # Last(log).original
    /\ ~Verifiable(Last(log))
    /\ ~Last(log).ret

\* The invocation of log entry e swapped and its verification failed, the
\* re-read raising or not finding the key and the value / swapped, found
\* both and ran to its end / failed before the swap
WrittenUnverified(e) == e.swapped /\ (e.fault = "verify" \/ ~Verifiable(e))
VerifiedSwap(e) ==
    e.swapped /\ e.fault = "none" /\ Verifiable(e) /\ e.finally = "done"
FailedBeforeSwap(e) == ~e.swapped

\* C13 as stated: the value returned after a failed verification differs
\* from the value returned after a failure that left the target untouched.
C13_UnverifiedDiffersFromUntouched ==
    pc = "idle" =>
        \A i, j \in DOMAIN log :
            (WrittenUnverified(log[i]) /\ FailedBeforeSwap(log[j]))
            => log[i].ret # log[j].ret

\* C13 as amended: the value returned after a failed verification differs
\* from the value returned after a verified swap that ran to its end, the
\* only invocations that return success, and equals the value returned
\* after a failure that left the target untouched.
C13_UnverifiedDiffersFromSuccessOnly ==
    pc = "idle" =>
        \A unverified \in {{ i \in DOMAIN log : WrittenUnverified(log[i]) }} :
            unverified # {}
            => \A verified \in {{ j \in DOMAIN log : VerifiedSwap(log[j]) }} :
               \A i \in unverified :
                /\ \A j \in verified : log[i].ret # log[j].ret
                /\ \A j \in DOMAIN log : log[j].ret => j \in verified
                /\ \A j \in DOMAIN log :
                      FailedBeforeSwap(log[j]) => log[i].ret = log[j].ret

\* A failed verification and a failure before the swap have both returned
C13_Witness ==
    /\ pc = "idle"
    /\ \E i, j \in DOMAIN log :
        /\ WrittenUnverified(log[i])
        /\ log[i].after # log[i].original
        /\ FailedBeforeSwap(log[j])

\* Number of occurrences of the character c in s
Count(s, c) == Cardinality({ i \in 1..Len(s) : s[i] = c })

\* The key of the record a is in doc after the apps key, and no text that
\* starts at the first opening brace after it and ends in a closing brace
\* has as many closing as opening braces
NoBalancedBlock(doc, a) ==
    LET apps == Find(doc, apps_key, 0)
    IN \A key \in {IF apps = -1 THEN -1 ELSE Find(doc, app_pattern(a), apps)} :
       \A open \in {IF key = -1 THEN -1 ELSE Find(doc, <<LBRACE>>, key)} :
       /\ key # -1
       /\ \/ open = -1
          \/ \A e \in (open + 1)..Len(doc) :
                doc[e] = RBRACE
                => Count(Slice(doc, open, e), LBRACE)
                        # Count(Slice(doc, open, e), RBRACE)

\* C14: an invocation on a document with no balanced block after the
\* located key returns failure without a swap, a backup or a temp file, and
\* the target is what it was.
C14_NoBlockNoWrite ==
    (pc = "idle" /\ log # <<>>
        /\ NoBalancedBlock(Last(log).before, Last(log).app_id))
    => /\ ~Last(log).ret
       /\ ~Last(log).swapped
       /\ ~Last(log).backed_up
       /\ Last(log).after = Last(log).original
       /\ disk = Last(log).original
       /\ tmp = <<>>
       /\ Last(log).backups = IF Len(log) = 1 THEN NoBackups
                              ELSE log[Len(log) - 1].backups

\* An invocation on a document whose block is opened and never closed has
\* returned
C14_Witness ==
    /\ pc = "idle"
    /\ log # <<>>
    /\ NoBalancedBlock(Last(log).before, Last(log).app_id)
    /\ Contains(Last(log).before,
                app_pattern(Last(log).app_id) \o <<LBRACE>>)
    /\ ~Last(log).ret

\* Offsets of the matches of the field pattern in s from pos
RECURSIVE MatchOffsets(_, _)
MatchOffsets(s, pos) ==
    LET p == ReSearch(s, pos)
    IN IF p = -1 THEN {} ELSE {p} \cup MatchOffsets(s, MatchEnd(s, p))

\* Every match of the field pattern in s from pos has become the text w in
\* new, shift being the growth of the text before pos
RECURSIVE EachBecame(_, _, _, _, _)
EachBecame(s, new, pos, shift, w) ==
    LET p == ReSearch(s, pos)
    IN IF p = -1 THEN TRUE
       ELSE /\ StartsAt(new, w, p + shift)
            /\ EachBecame(s, new, MatchEnd(s, p),
                          shift + Len(w) - (MatchEnd(s, p) - p), w)

\* Summed length of the matches of the field pattern in s from pos
RECURSIVE MatchedLength(_, _)
MatchedLength(s, pos) ==
    LET p == ReSearch(s, pos)
    IN IF p = -1 THEN 0
       ELSE (MatchEnd(s, p) - p) + MatchedLength(s, MatchEnd(s, p))

\* C15 as stated: on the replace path every occurrence of the field after
\* the first stands unchanged in the patched record, moved by the growth of
\* the first.
C15_OnlyFirstReplaced ==
    JustReplaced =>
        LET rec == RecordOf(config_content, app_id)
            first == ReSearch(rec, 0)
            d == Len(NewRecord) - Len(rec)
        IN \A p \in MatchOffsets(rec, 0) \ {first} :
            Slice(NewRecord, p + d, MatchEnd(rec, p) + d)
                = Slice(rec, p, MatchEnd(rec, p))

\* C15 as amended: on the replace path every occurrence of the field in
\* the record span, those of a nested block included, is replaced by the
\* text that replaces the first.
C15_EveryOccurrenceReplaced ==
    pc = "verify" =>
        \A rec \in {RecordOf(config_content, app_id)} :
        \A first \in {ReSearch(rec, 0)} :
        \A second \in {IF first = -1 THEN -1
                       ELSE ReSearch(rec, MatchEnd(rec, first))} :
        second # -1 =>
            \A new \in {NewRecord}, n \in {MatchCount(rec, 0)} :
            LET grown == Len(new) - Len(rec) + MatchedLength(rec, 0)
                w == Slice(new, first, first + grown \div n)
            IN /\ grown = n * Len(w)
               /\ EachBecame(rec, new, 0, 0, w)
               /\ Slice(new, first + Len(w),
                        second + Len(w) - (MatchEnd(rec, first) - first))
                    = Slice(rec, MatchEnd(rec, first), second)

\* A replace-path swap on a record that holds the field at its top level
\* and in a nested block, the nested one changed by the swap
C15_Witness ==
    /\ JustReplaced
    /\ LET rec == RecordOf(config_content, app_id)
           p == ReSearch(rec, MatchEnd(rec, ReSearch(rec, 0)))
       IN /\ p # -1
          /\ Count(Slice(rec, 0, p), LBRACE) > Count(Slice(rec, 0, p), RBRACE)
          /\ ~Contains(NewRecord, Slice(rec, p, MatchEnd(rec, p)))

\* doc has as many opening as closing braces
Balanced(doc) == Count(doc, LBRACE) = Count(doc, RBRACE)

\* C16: after patches that all returned success, applied one after the
\* other to a document with as many opening as closing braces, the target
\* has as many opening as closing braces and holds the apps key and the
\* record key.
C16_BalancePreserved ==
    (/\ pc = "idle"
     /\ log # <<>>
     /\ \A i \in DOMAIN log : log[i].ret
     /\ Balanced(log[1].before))
    => /\ Balanced(disk)
       /\ Contains(disk, apps_key)
       /\ Contains(disk, app_pattern(Last(log).app_id))

\* The entries of a dict
Entries(d) == { d[i] : i \in DOMAIN d }

\* The command of the option runs under the mangohud wrapper
Wrapped(option) == StartsAt(option.command, mangohud \o <<SP>>, 0)

\* C17: the catalog returned for include_mangohud=False, with and without
\* the RDNA3 variants, has no key that contains "mangohud" and no command
\* under the mangohud wrapper, and holds every option without the wrapper
\* that the catalog for include_mangohud=True holds.
C17_FilterDropsMangohudOnly ==
    (cpc = "return" /\ ~include_mangohud)
    => /\ \A e \in Entries(catalog) :
            ~Contains(e.key, mangohud) /\ ~Wrapped(e)
       /\ \A e \in Entries(CatalogFor(rdna3_workaround, TRUE)) :
            ~Wrapped(e) => e \in Entries(catalog)

\* The filtered catalog with the RDNA3 variants has been returned, the
\* unfiltered one holding a wrapped RDNA3 variant
C17_Witness ==
    /\ cpc = "return"
    /\ ~include_mangohud
    /\ rdna3_workaround
    /\ catalog # <<>>
    /\ \E e \in Entries(CatalogFor(TRUE, TRUE)) :
        /\ Wrapped(e)
        /\ Contains(e.key, rdna3)
        /\ e \notin Entries(catalog)

\* C18: the catalog returned for rdna3_workaround=True holds every option
\* of the catalog for rdna3_workaround=False and the same filter, as it is
\* there, and for each of them an option under its key followed by "_rdna3"
\* in the same category; the catalog returned for rdna3_workaround=False has
\* no key that contains "rdna3".
C18_VariantPerBaseOption ==
    cpc = "return" =>
        /\ rdna3_workaround =>
            \A b \in Entries(CatalogFor(FALSE, include_mangohud)) :
                /\ b \in Entries(catalog)
                /\ \E e \in Entries(catalog) :
                    /\ e.key = b.key \o <<"_">> \o rdna3
                    /\ e.category = b.category
        /\ ~rdna3_workaround =>
            \A e \in Entries(catalog) : ~Contains(e.key, rdna3)

\* The catalog with the RDNA3 variants has been returned through the
\* filter
C18_Witness ==
    /\ cpc = "return"
    /\ rdna3_workaround
    /\ ~include_mangohud
    /\ \E e \in Entries(catalog) : e.key = key_basic \o <<"_">> \o rdna3
    /\ \E e \in Entries(catalog) : e.key = key_basic

\* The reload has been asked for, or has acted
ReloadAsked ==
    \/ apc = "signal"
    \/ \E i \in DOMAIN stages : stages[i] = "signal"
    \/ apc \in {"lookup", "kill", "reloaded"}
    \/ touched \/ pids > 0 \/ hup_sent > 0 \/ note

\* C19: the reload is asked for only after _modify_vdf_launch_options has
\* returned success with Steam found running; an invocation that failed at
\* the checks of the installation, at the read or in
\* _modify_vdf_launch_options has run no stage after the one that failed,
\* asked for no reload and returned failure.
C19_ShortCircuit ==
    /\ ReloadAsked => (log # <<>> /\ Last(log).ret /\ steam_running)
    /\ apc = "done" =>
        /\ (install # "complete") =>
            /\ stages = <<"paths">>
            /\ log = <<>> /\ tmp = <<>> /\ backups = NoBackups
            /\ ~ReloadAsked
            /\ ~apply_ret
        /\ (install = "complete" /\ log = <<>>) =>
            /\ stages \in {<<"paths">>, <<"paths", "pgrep", "read">>}
            /\ tmp = <<>> /\ backups = NoBackups
            /\ ~ReloadAsked
            /\ ~apply_ret
        /\ (log # <<>> /\ ~Last(log).ret) =>
            /\ stages = <<"paths", "pgrep", "read", "modify">>
            /\ ~ReloadAsked
            /\ ~apply_ret

\* With Steam running, an invocation whose verification failed after the
\* swap has returned failure
C19_Witness ==
    /\ apc = "done"
    /\ steam_running
    /\ log # <<>>
    /\ Last(log).swapped
    /\ ~Last(log).ret
    /\ ~apply_ret

\* C20: whenever _modify_vdf_launch_options has returned success,
\* apply_steam_launch_options returns success, whatever the reload came to.
C20_ReloadNeverDowngrades ==
    (apc = "done" /\ log # <<>> /\ Last(log).ret) => apply_ret

\* The reload has raised inside, printed its note, and the invocation has
\* returned success
C20_Witness ==
    /\ apc = "done"
    /\ log # <<>>
    /\ Last(log).ret
    /\ note
    /\ ~touched
    /\ apply_ret

\* The first occurrence of the key of the record a in doc is not followed,
\* after any white space, by an opening brace
KeyNotOpening(doc, a) ==
    \A k \in {Find(doc, app_pattern(a), 0)} :
        /\ k # -1
        /\ \A e \in {SkipSpaces(doc, k + Len(app_pattern(a)))} :
              e >= Len(doc) \/ At(doc, e) # LBRACE

\* C21: an invocation whose record key occurs in the document without an
\* opening brace right after it (white space aside) returns failure and
\* leaves the target as it was; the block of a later key is never patched.
C21_KeyWithoutBlockNotPatched ==
    (/\ pc = "idle"
     /\ log # <<>>
     /\ KeyNotOpening(Last(log).before, Last(log).app_id))
    => (/\ ~Last(log).ret
        /\ ~Last(log).swapped
        /\ Last(log).after = Last(log).original)

\* The entry e tells of an invocation that committed the patch of the block
\* that follows offset key of its document
PatchedAt(e, key) ==
    \A span \in {BlockAfter(e.before, key)} :
        /\ span.found
        /\ e.swapped
        /\ e.after = Splice(e.before, span,
                            PatchField(SectionContent(e.before, span),
                                       Encode(e.launch_command)))

\* C22 as stated: the record key is searched from the start of the
\* document, and a document that holds the key followed by a balanced block
\* is patched at the key's first occurrence, whatever other keys it holds.
C22_FirstOccurrenceAnywhere ==
    (/\ pc = "idle"
     /\ log # <<>>
     /\ Last(log).fault = "none")
    => \A key \in {Find(Last(log).before, app_pattern(Last(log).app_id), 0)} :
          (key # -1 /\ BlockAfter(Last(log).before, key).found)
          => PatchedAt(Last(log), key)

\* C22, amended: the record key is searched from the first occurrence of the
\* apps key on. A document without the apps key is not patched; one that
\* holds the record key at or after the apps key, followed by a balanced
\* block, is patched at the first such occurrence, and occurrences before
\* the apps key are passed over.
C22_FirstOccurrenceAfterApps ==
    (/\ pc = "idle"
     /\ log # <<>>
     /\ Last(log).fault = "none")
    => \A apps \in {Find(Last(log).before, apps_key, 0)} :
          IF apps = -1
          THEN ~Last(log).swapped /\ Last(log).after = Last(log).original
          ELSE \A key \in {Find(Last(log).before,
                                app_pattern(Last(log).app_id), apps)} :
                  (key # -1 /\ BlockAfter(Last(log).before, key).found)
                  => PatchedAt(Last(log), key)

\* An invocation has patched a document whose record key first occurs before
\* the apps key
C22_Witness ==
    /\ pc = "idle"
    /\ log # <<>>
    /\ Last(log).swapped
    /\ Find(Last(log).before, app_pattern(Last(log).app_id), 0)
         < Find(Last(log).before, apps_key, 0)
    /\ Last(log).after # Last(log).original

\* The offset from which the invocation of entry e scanned for its block:
\* that of the record key after the apps key, -1 when there is none
ScanOffset(e) ==
    LET apps == Find(e.before, apps_key, 0)
    IN IF apps = -1 THEN -1 ELSE Find(e.before, app_pattern(e.app_id), apps)

\* The number of quotes in s that no backslash precedes
OpenQuotes(s) ==
    Cardinality({ i \in 1..Len(s) : s[i] = Q /\ (i > 1 => s[i - 1] # BS) })

\* C23: the span the scanner returns for an offset starts one past the first
\* opening brace at or after the offset and ends at a closing brace; its
\* interior has as many opening as closing braces; no proper prefix of the
\* block, taken from its opening brace, has; every brace character counts,
\* those between quotes too.
C23_SpanIsFirstBalancedBlock ==
    (/\ pc = "idle"
     /\ log # <<>>
     /\ ScanOffset(Last(log)) # -1)
    => \A doc \in {Last(log).before} :
       \A span \in {BlockAfter(doc, ScanOffset(Last(log)))} :
          span.found
          => /\ span.start_pos - 1 = Find(doc, <<LBRACE>>, ScanOffset(Last(log)))
             /\ span.brace_end >= span.start_pos
             /\ At(doc, span.brace_end) = RBRACE
             /\ Count(Slice(doc, span.start_pos, span.brace_end), LBRACE)
                  = Count(Slice(doc, span.start_pos, span.brace_end), RBRACE)
             /\ \A e \in span.start_pos..span.brace_end :
                   Count(Slice(doc, span.start_pos - 1, e), LBRACE)
                     # Count(Slice(doc, span.start_pos - 1, e), RBRACE)

\* An invocation has scanned a block that is closed, for the scanner, by a
\* brace between the quotes of a value
C23_Witness ==
    /\ pc = "idle"
    /\ log # <<>>
    /\ ScanOffset(Last(log)) # -1
    /\ \A span \in {BlockAfter(Last(log).before, ScanOffset(Last(log)))} :
          /\ span.found
          /\ OpenQuotes(Slice(Last(log).before, span.start_pos,
                              span.brace_end)) % 2 = 1

\* The interior of the record the invocation of entry e located, before and
\* after the invocation
RecordBefore(e) ==
    SectionContent(e.before, BlockAfter(e.before, ScanOffset(e)))
RecordAfter(e) ==
    LET span == BlockAfter(e.before, ScanOffset(e))
    IN Slice(e.after, span.start_pos,
             Len(e.after) - (Len(e.before) - span.brace_end))

\* The invocation of entry e met no failing operation, located a block and
\* found no field in it: it took the insert path
Inserted(e) ==
    /\ e.fault = "none"
    /\ ScanOffset(e) # -1
    /\ BlockAfter(e.before, ScanOffset(e)).found
    /\ ReSearch(RecordBefore(e), 0) = -1

\* The anchor keys that occur in s, by their place in the list of keys
AnchorsIn(s) ==
    { k \in DOMAIN insertion_keys : Find(s, insertion_keys[k], 0) # -1 }

\* The text of the new field without its line end: six tabs, the key, two
\* tabs, the encoded value between quotes
NewField(e) ==
    indent \o launch_options_key \o <<TAB, TAB, Q>>
        \o Encode(e.launch_command) \o <<Q>>

\* The offset at which the line of the last anchor found in s ends: that of
\* its newline, or the length of s when the line is the last and has none
AnchorLineEnd(s) ==
    LET last == CHOOSE k \in AnchorsIn(s) : \A j \in AnchorsIn(s) : j <= k
        key_pos == Find(s, insertion_keys[last], 0)
        line_end == Find(s, <<NL>>, key_pos)
    IN IF line_end = -1 THEN Len(s) ELSE line_end

\* C24: on the insert path, with an anchor key in the record, the text up to
\* the end of the line of the last anchor found is kept and the new field,
\* with its six tabs and its two tabs between key and value, comes right
\* after that line -- also when the line is the last one of the record and
\* has no newline.
C24_InsertedAfterAnchorLine ==
    (/\ pc = "idle"
     /\ log # <<>>
     /\ Inserted(Last(log))
     /\ AnchorsIn(RecordBefore(Last(log))) # {})
    => \A rec \in {RecordBefore(Last(log))} :
       \A new \in {RecordAfter(Last(log))} :
       \A line_end \in {AnchorLineEnd(rec)} :
          /\ Last(log).swapped
          /\ Slice(new, 0, line_end) = Slice(rec, 0, line_end)
          /\ Find(new, NewField(Last(log)), 0) \in {line_end, line_end + 1}

\* C25 as stated: on the insert path, with no anchor key in the record, the
\* new field is appended just before the closing boundary of the record,
\* after every field the record had.
C25_AppendedWithoutAnchor ==
    (/\ pc = "idle"
     /\ log # <<>>
     /\ Inserted(Last(log))
     /\ AnchorsIn(RecordBefore(Last(log))) = {})
    => \A rec \in {RecordBefore(Last(log))} :
       \A new \in {RecordAfter(Last(log))} :
          /\ Last(log).swapped
          /\ Slice(new, 0, Len(rec)) = rec
          /\ Find(new, NewField(Last(log)), 0) >= Len(rec)

\* C25, amended: on the insert path, with no anchor key in the record, the
\* new field and its newline are put at the start of the record's interior,
\* before every field the record had, and the record follows unchanged.
C25_PrependedWithoutAnchor ==
    (/\ pc = "idle"
     /\ log # <<>>
     /\ Inserted(Last(log))
     /\ AnchorsIn(RecordBefore(Last(log))) = {})
    => /\ Last(log).swapped
       /\ RecordAfter(Last(log))
            = NewField(Last(log)) \o <<NL>> \o RecordBefore(Last(log))

\* An invocation has inserted the field into a record that held a field and
\* no anchor key
C25_Witness ==
    /\ pc = "idle"
    /\ log # <<>>
    /\ Inserted(Last(log))
    /\ AnchorsIn(RecordBefore(Last(log))) = {}
    /\ RecordBefore(Last(log)) # <<>>
    /\ Last(log).swapped

\* C27: on the insert path the new field stands at nesting depth zero of the
\* record: as many braces are opened as are closed in the record's text
\* before it, wherever the anchor keys occur.
C27_InsertedAtDepthZero ==
    (/\ pc = "idle"
     /\ log # <<>>
     /\ Inserted(Last(log)))
    => \A new \in {RecordAfter(Last(log))} :
       \A p \in {Find(new, NewField(Last(log)), 0)} :
          /\ p # -1
          /\ Count(Slice(new, 0, p), LBRACE) = Count(Slice(new, 0, p), RBRACE)

\* C26: the backups of different invocations never overwrite one another,
\* two invocations within one second of the clock included: for each
\* invocation that took a backup, a backup file still holds the content the
\* target had when that invocation read it.
C26_BackupsNeverOverwritten ==
    (pc = "idle" /\ log # <<>>)
    => \A i \in DOMAIN log :
          log[i].backed_up
          => \E t \in DOMAIN backups : backups[t] = log[i].original

\* The number of offsets at which sub occurs in s
Occurrences(s, sub) ==
    Cardinality({ i \in 0..(Len(s) - Len(sub)) : StartsAt(s, sub, i) })

\* The words of a command: its longest pieces without a space
Words(s) ==
    { Slice(s, i, j) : <<i, j>> \in
        { p \in (0..Len(s)) \X (0..Len(s)) :
            /\ p[1] < p[2]
            /\ (p[1] = 0 \/ s[p[1]] = SP)
            /\ (p[2] = Len(s) \/ s[p[2] + 1] = SP)
            /\ \A k \in (p[1] + 1)..p[2] : s[k] # SP } }

\* C30: in the catalog returned for rdna3_workaround=True, the command of
\* every option under a key that ends in "_rdna3" holds the setting
\* DXIL_SPIRV_CONFIG=wmma_rdna3_workaround, holds RADV_PERFTEST once and with
\* nggc once, and holds every other word of the command of the option it was
\* made from.
C30_Rdna3CommandComplete ==
    (cpc = "return" /\ rdna3_workaround)
    => \A b \in Entries(catalog) :
       \A e \in Entries(catalog) :
          e.key = b.key \o <<"_">> \o rdna3
          => /\ Contains(e.command, dxil_spirv_config)
             /\ Occurrences(e.command, radv_perftest) = 1
             /\ Occurrences(e.command, nggc) = 1
             /\ \A w \in Words(b.command) :
                   ~StartsAt(w, radv_perftest, 0) => w \in Words(e.command)

\* The documents a reader may find whole: the one the target held at first
\* and the new documents the invocations have built
WholeDocuments ==
    {inodes[1]}
        \cup { procs[p].new_config :
                 p \in { q \in DOMAIN procs : procs[q].new_config # <<>> } }

\* C28: while two invocations run side by side on one target, whatever the
\* order of their steps, the target holds at every moment the document it
\* held at first or the whole new document of one of them -- never an empty
\* or partly written text -- and so it does once both have returned.
C28_TargetNeverCorrupted ==
    procs # <<>> => TargetContent \in WholeDocuments

\* The step is the swap of invocation p, or its backup
Swaps(p) ==
    p \in DOMAIN procs /\ procs[p].pc = "replace" /\ procs'[p].pc = "verify"
BacksUp(p) ==
    p \in DOMAIN procs /\ procs[p].pc = "copystat" /\ procs'[p].pc = "open"

\* C29 as stated: the document a swap commits is the patch of the content
\* the target holds at the swap, so that a rewrite by the file's owner after
\* the read and before the swap is not lost; and the backup of the
\* invocation holds the content its document was built from.
C29_CommitsPatchOfDiskContent ==
    [][\A p \in Invocations :
          Swaps(p)
          => /\ inodes'[target']
                  = NewConfig(TargetContent, procs[p].app_id,
                              procs[p].launch_command)
             /\ procs[p].backed_up
                  => backups[procs[p].backup_path] = procs[p].config_content
      ]_vars

\* C29, amended: the document a swap commits is the patch of the content
\* the invocation read at its start, whatever the target holds at the swap:
\* a rewrite by the file's owner in between is overwritten. The backup
\* holds what the file held that config_path named when shutil.copy2 opened
\* it, the owner's rewrite when that came first.
C29_CommitsPatchOfContentRead ==
    [][\A p \in Invocations :
          /\ Swaps(p)
             => inodes'[target']
                  = NewConfig(procs[p].config_content, procs[p].app_id,
                              procs[p].launch_command)
          /\ BacksUp(p)
             => backups[procs[p].backup_path] = inodes[procs[p].source]
      ]_vars

\* An invocation has swapped its document in over a rewrite that the owner
\* made after the invocation had read the file
C29_Witness ==
    /\ procs # <<>>
    /\ procs[1].swapped
    /\ rewrites > 0
    /\ TargetContent = procs[1].new_config
    /\ \E i \in DOMAIN inodes :
          /\ i # target
          /\ inodes[i] \in OwnerDocuments
          /\ inodes[i] # procs[1].config_content

====
